---- MODULE Spec2Model ----
(***************************************************************************)
(* Rule-based college e-mail classifier (EmailClassifier.classify) and the *)
(* Gmail triage dispatcher (runTriage) that consumes its verdicts.         *)
(*                                                                         *)
(* Text is modelled at word level: a string is a sequence of tokens, where *)
(* consecutive tokens are separated by exactly one blank and the token NL  *)
(* stands for a line feed.  A regular expression of the source becomes a   *)
(* set of alternatives, each a sequence of elements:                       *)
(*   W(S)  one word of S, preceded by \s+ when it is not the first element *)
(*   S1(S) one word of S, preceded by exactly one blank (no line feed)     *)
(*   O(S)  an optional word of S, i.e. (word\s+)?                          *)
(*   G     .*   between two words (never crosses a line feed)              *)
(*   GW    \s+.*  between two words                                        *)
(*   A0    \s+.*\s+   and   A1   \s+.+\s+                                  *)
(* A word set stands for every vocabulary word the source expression       *)
(* matches at that place (prefix/suffix matches where \b is missing).      *)
(***************************************************************************)
EXTENDS Naturals, Integers, Sequences, FiniteSets, TLC

NL == "<nl>"

W(s) == [k |-> "w", s |-> s]
S1(s) == [k |-> "s", s |-> s]
O(s) == [k |-> "o", s |-> s]
G == [k |-> "g", s |-> {}]
GW == [k |-> "gw", s |-> {}]
A0 == [k |-> "a0", s |-> {}]
A1 == [k |-> "a1", s |-> {}]

\* String.prototype.toLowerCase on one token
LowerTok(w) ==
  CASE w = "Password" -> "password"
    [] w = "Reset" -> "reset"
    [] w = "Required" -> "required"
    [] w = "Re:" -> "re:"
    [] w = "RE:" -> "re:"
    [] w = "Your" -> "your"
    [] w = "Question" -> "question"
    [] w = "Application" -> "application"
    [] w = "Received" -> "received"
    [] w = "Apply" -> "apply"
    [] w = "For" -> "for"
    [] w = "The" -> "the"
    [] w = "President's" -> "president's"
    [] w = "Scholarship" -> "scholarship"
    [] w = "Reserved" -> "reserved"
    [] w = "You" -> "you"
    [] w = "How" -> "how"
    [] w = "To" -> "to"
    [] w = "Student" -> "student"
    [] w = "Life" -> "life"
    [] w = "Blog" -> "blog"
    [] w = "Hello" -> "hello"
    [] w = "Accepted" -> "accepted"
    [] w = "Portal" -> "portal"
    [] w = "Learn" -> "learn"
    [] OTHER -> w

\* String.prototype.toLowerCase
toLowerCase(t) == [i \in 1..Len(t) |-> LowerTok(t[i])]

\* index of the first token at or after i that is not a line feed
RECURSIVE SkipNL(_, _)
SkipNL(t, i) == IF i <= Len(t) /\ t[i] = NL THEN SkipNL(t, i + 1) ELSE i

\* tokens i..j-1 of t contain no line feed
NoNL(t, i, j) == \A x \in i..(j - 1) : t[x] # NL

\* RegExp matching: elements p[k..] match t, element k starting at token i
RECURSIVE MatchAt(_, _, _, _)
RECURSIVE AfterWord(_, _, _, _)
MatchAt(p, k, t, i) ==
  IF k > Len(p) THEN TRUE
  ELSE IF p[k].k = "o"
    THEN \/ i <= Len(t) /\ t[i] \in p[k].s /\ AfterWord(p, k + 1, t, i + 1)
         \/ MatchAt(p, k + 1, t, i)
  ELSE i <= Len(t) /\ t[i] \in p[k].s /\ AfterWord(p, k + 1, t, i + 1)

\* the separator in front of element k, j being the token after the last word
AfterWord(p, k, t, j) ==
  IF k > Len(p) THEN TRUE
  ELSE IF p[k].k = "s" THEN MatchAt(p, k, t, j)
  ELSE IF p[k].k \in {"w", "o"} THEN MatchAt(p, k, t, SkipNL(t, j))
  ELSE IF p[k].k = "g"
    THEN \E j2 \in j..(Len(t) + 1) : NoNL(t, j, j2) /\ MatchAt(p, k + 1, t, j2)
  ELSE IF p[k].k = "gw"
    THEN LET j1 == SkipNL(t, j) IN
         \E j2 \in j1..(Len(t) + 1) : NoNL(t, j1, j2) /\ MatchAt(p, k + 1, t, j2)
  ELSE LET j1 == SkipNL(t, j) IN
       \/ \E j2 \in (j1 + 1)..(Len(t) + 1) :
             NoNL(t, j1, j2) /\ MatchAt(p, k + 1, t, SkipNL(t, j2))
       \/ /\ p[k].k = "a0"
          /\ j + 1 <= Len(t) /\ t[j] = NL /\ t[j + 1] = NL
          /\ MatchAt(p, k + 1, t, j1)

\* RegExp.prototype.test for a regular expression re (a set of alternatives)
Test(re, t) == \E p \in re : \E i \in 1..Len(t) : MatchAt(p, 1, t, i)

\* some expression of the list matches (for (const pattern of patterns) if (pattern.test(..)))
AnyTest(patterns, t) == \E n \in 1..Len(patterns) : Test(patterns[n], t)

\* a phrase of single words separated by \s+
Ph(ws) == [i \in 1..Len(ws) |-> W({ws[i]})]

Null == [pertains |-> FALSE, reason |-> "null", confidence |-> 0, matched_rules |-> <<>>]

Verdict(p, r, c, rule) ==
  [pertains |-> p, reason |-> r, confidence |-> c, matched_rules |-> <<rule>>]

\* mutant of firstMatchReturn: the exclusion is not consulted
RECURSIVE firstMatchNoVeto(_, _, _, _, _)
firstMatchNoVeto(patterns, n, t, excluded, verdict) ==
  IF n > Len(patterns) THEN Null
  ELSE IF Test(patterns[n], t) THEN verdict
  ELSE firstMatchNoVeto(patterns, n + 1, t, excluded, verdict)

\* for (const pattern of patterns) { if (pattern.test(combined)) { if (excluded) return null; return verdict; } } return null;
RECURSIVE firstMatchReturn(_, _, _, _, _)
firstMatchReturn(patterns, n, t, excluded, verdict) ==
  IF n > Len(patterns) THEN Null
  ELSE IF Test(patterns[n], t) THEN (IF excluded THEN Null ELSE verdict)
  ELSE firstMatchReturn(patterns, n + 1, t, excluded, verdict)

(***************************************************************************)
(* EmailClassifier (hardened class, the one wrapper.ts imports)            *)
(***************************************************************************)
securityPatterns == <<
  {<<W({"password"}), W({"reset", "change", "update", "expired"})>>},
  {Ph(<<"reset", "your", "password">>)},
  {Ph(<<"account", "security">>)},
  {Ph(<<"security", "alert">>)},
  {<<W({"unusual"}), W({"sign-in", "signin", "activity"})>>,
   <<W({"unusual"}), W({"sign"}), S1({"in"})>>},
  {Ph(<<"verification", "code">>)},
  {<<W({"2fa", "mfa", "two-factor"})>>, <<W({"two"}), S1({"factor"})>>},
  {Ph(<<"compromised", "account">>)},
  {<<W({"account"}), W({"locked", "suspended"})>>},
  {Ph(<<"suspicious", "activity">>)} >>

securityExclusion ==
  {<<W({"saving", "savings"}), G, W({"on"}), W({"tuition"})>>,
   <<W({"tuition"}), G, W({"saving", "savings"})>>}

securityVerdict ==
  Verdict(TRUE, "Security/password alert - always important", 100, "security_alert")

checkSecurity(combined) ==
  firstMatchReturn(securityPatterns, 1, combined,
                   Test(securityExclusion, combined), securityVerdict)

responsePatterns == <<
  {Ph(<<"thank", "you", "for", "reaching", "out">>)},
  {Ph(<<"thanks", "for", "reaching", "out">>)},
  {<<W({"thank"}), W({"you"}), W({"for"}), O({"your"}),
     W({"email", "inquiry", "question", "interest"})>>},
  {<<W({"in"}), W({"response"}), W({"to"}), W({"your"}),
     W({"email", "inquiry", "question"})>>} >>

\* String.prototype.trim: leading and trailing white space removed
RECURSIVE trim(_)
trim(t) ==
  IF t = <<>> THEN t
  ELSE IF Head(t) = NL THEN trim(Tail(t))
  ELSE IF t[Len(t)] = NL THEN trim(SubSeq(t, 1, Len(t) - 1))
  ELSE t

\* /^re:/i.test(subject.trim())
isReply(subject) == trim(subject) # <<>> /\ LowerTok(trim(subject)[1]) \in {"re:"}

outreachVerdict ==
  Verdict(TRUE, "Reply to student's outreach email", 95, "student_outreach_reply")

checkStudentOutreach(subject, combined) ==
  IF ~isReply(subject) THEN Null
  ELSE firstMatchReturn(responsePatterns, 1, combined, FALSE, outreachVerdict)

\* the action triggers with the invitation "how to apply" added as a seventh
actionPatternsWithApply == <<
  {<<W({"application"}), W({"received", "complete", "submitted", "confirmation"})>>},
  {Ph(<<"received", "your", "application">>)},
  {<<W({"thank"}), W({"you"}), W({"for"}), W({"applying", "submitting"})>>},
  {Ph(<<"enrollment", "confirmation">>)},
  {<<W({"confirmation"}), W({"of", "for"}), O({"your"}), W({"application", "enrollment"})>>},
  {<<W({"your"}), W({"application"}), W({"has"}), W({"been"}), W({"received", "complete"})>>,
   <<W({"your"}), W({"application"}), W({"is"}), W({"received", "complete"})>>},
  {Ph(<<"how", "to", "apply">>)} >>

actionPatterns == <<
  {<<W({"application"}), W({"received", "complete", "submitted", "confirmation"})>>},
  {Ph(<<"received", "your", "application">>)},
  {<<W({"thank"}), W({"you"}), W({"for"}), W({"applying", "submitting"})>>},
  {Ph(<<"enrollment", "confirmation">>)},
  {<<W({"confirmation"}), W({"of", "for"}), O({"your"}), W({"application", "enrollment"})>>},
  {<<W({"your"}), W({"application"}), W({"has"}), W({"been"}), W({"received", "complete"})>>,
   <<W({"your"}), W({"application"}), W({"is"}), W({"received", "complete"})>>} >>

actionExclusion ==
  {Ph(<<"how", "to", "apply">>), Ph(<<"apply", "now">>),
   <<W({"start"}), O({"your"}), W({"application"})>>}

actionVerdict ==
  Verdict(TRUE, "Confirmation of student action (application/enrollment)", 95,
          "student_action_confirmation")

checkStudentAction(combined) ==
  firstMatchReturn(actionPatterns, 1, combined,
                   Test(actionExclusion, combined), actionVerdict)

acceptedPatterns == <<
  {<<W({"accepted"}), O({"student"}), W({"portal"})>>},
  {<<W({"your"}), O({"personalized"}), W({"accepted"}), W({"portal"})>>},
  {<<W({"deposit"}), W({"today", "now", "by"})>>, Ph(<<"deposit", "to", "reserve">>)},
  {<<W({"reserve"}), W({"your"}), W({"place", "spot"})>>},
  {<<W({"congratulations"}), G, W({"accepted"})>>},
  {<<W({"you"}), W({"have"}), W({"been"}), W({"accepted"})>>,
   <<W({"you"}), W({"are", "were"}), W({"accepted"})>>},
  {<<W({"admission"}), W({"decision", "offer"})>>},
  {<<W({"enroll", "enrollment"}), W({"deposit"})>>} >>

Months4 == {"december", "january", "february", "march"}
Months12 == {"january", "february", "march", "april", "may", "june", "july",
             "august", "september", "october", "november", "december"}
PreSubmit == {"submit", "submitted", "submitting"}
PreComplete == {"complete", "completed"}
PreDeadline == {"deadline", "deadlines"}
Tonight3 == {"midnight", "tonight", "today"}
Admit3 == {"admit", "admitted", "admission"}

\* the if-statements of checkAccepted that return null once a trigger matched
acceptedExcluded(combined) ==
  \/ Test({Ph(<<"acceptance", "rate">>), Ph(<<"high", "acceptance">>),
           <<W({"pre-admit", "pre-admitted"})>>, <<W({"pre"}), S1({"admit", "admitted"})>>,
           Ph(<<"automatic", "admission">>)}, combined)
  \/ Test({<<W({"direct"}), W(Admit3), G, W(PreComplete \cup PreSubmit), G, W({"profile"})>>,
           <<W(PreComplete \cup PreSubmit), G, W({"profile"}), G, W({"direct"}), W(Admit3)>>},
          combined)
  \/ Test({<<W({"you"}), W({"will"}), O({"also"}), W({"receive"}), O({"a", "an"}),
             O({"accelerated"}), W({"admission"}), W({"decision"})>>}, combined)
  \/ Test({Ph(<<"receive", "an", "admission", "decision", "within">>)}, combined)
  \/ Test({<<W({"priority"}), W({"student"}), G, W(PreSubmit), G, W({"application"})>>,
           <<W(PreSubmit), G, W({"priority"}), W({"student"}), W({"application"})>>}, combined)
  \/ Test({<<W({"submit"}), O({"your"}), O({"the"}), W({"application"})>>}, combined)
  \/ Test({<<W({"once"}), W({"you"}), W({"are"}), W({"accepted"})>>,
           Ph(<<"once", "you", "have", "been", "accepted">>)}, combined)
  \/ /\ Test({Ph(<<"reserve", "your", "spot">>)}, combined)
     /\ Test({<<W({"virtual", "webinar", "event", "program", "zoom", "session"})>>}, combined)
  \/ Test({<<W({"top"}), W({"candidate"}), G, W({"apply"})>>,
           <<W({"top"}), W({"candidate"}), G, W({"start", "started"}), G, W({"application"})>>,
           <<W({"top"}), W({"candidate"}), G, W(PreSubmit), G, W({"application"})>>}, combined)
  \/ Test({Ph(<<"invite", "you", "to", "apply">>)}, combined)
  \/ Test({<<W({"early"}), W({"decision", "action"}), G,
             W({"deadline", "apply", "application"}), G, W({"approaching", "by", "extended"})>>,
           <<W({"priority"}), G,
             W({"deadline", "apply", "application"}), G, W({"approaching", "by", "extended"})>>},
          combined)
  \/ Test({<<W({"apply"}), W({"by", "now", "today"})>>, Ph(<<"apply", "right", "away">>),
           <<W(PreDeadline), G, W(Months4)>>}, combined)
  \/ Test({Ph(<<"panther", "priority", "application">>), Ph(<<"priority", "application">>)},
          combined)
  \/ Test({Ph(<<"deadline", "details">>), Ph(<<"your", "deadline">>)}, combined)
  \/ Test({Ph(<<"application", "deadline", "will", "be">>)}, combined)
  \/ Test({Ph(<<"flip", "these", "pages">>), Ph(<<"learn", "more", "about", "being">>)},
          combined)
  \/ Test({<<W({"want", "wanted"}), W({"to"}), W({"make"}), W({"sure"}),
             W({"you're", "youre"}), W({"ready"})>>}, combined)
  \/ /\ Test({<<W({"we're", "were"}), W({"interested"}), W({"in"}), W({"you"})>>}, combined)
     /\ Test({<<W({"apply"})>>}, combined)
  \/ Test({<<W({"you"}), W({"have"}), W({"until"}), G, W(Tonight3), G, W({"to"}), W({"apply"})>>},
          combined)
  \/ Test({<<W({"giving"}), W({"you"}), W({"until"}), G, W(Tonight3), G, W({"to"}), W({"apply"})>>},
          combined)
  \/ Test({<<W({"apply"}), W({"by"}), W({"the"}), W(Months12), G, W({"deadline"})>>}, combined)
  \/ Test({<<W({"fee"}), W({"waiver"}), G, W({"ends", "today", "tonight"})>>,
           <<W({"fee"}), W({"waiver"}), G, W({"last"}), W({"day"})>>,
           <<W({"today", "tonight"}), G, W({"last"}), W({"day"}), W({"for"}), G,
             W({"fee"}), W({"waiver"})>>}, combined)
  \/ Test({<<W({"complete"}), W({"your"}), W({"application"}), G,
             W({"priority", "perks", "benefits"})>>,
           <<W({"complete"}), W({"your"}), W({"application"}), G,
             W({"no"}), W({"application"}), W({"fee"})>>,
           <<W({"complete"}), W({"your"}), W({"application"}), G, W({"no"}), W({"essay"})>>},
          combined)
  \/ Test({Ph(<<"apply", "for", "free">>),
           <<W({"waiving"}), W({"your"}), G, W({"fee"})>>,
           <<W({"we're", "were"}), W({"waiving"}), W({"your"})>>}, combined)
  \/ Test({<<W({"apply"}), W({"and"}), W({"enroll"}), G, W({"free"})>>}, combined)
  \/ Test({<<W({"haven't", "havent"}), W({"received"}), W({"your"}), W({"application"})>>,
           <<W({"we"}), W({"haven't", "havent"}), W({"received"})>>}, combined)

acceptedVerdict ==
  Verdict(TRUE, "Accepted student portal/deposit information", 95, "accepted_student")

checkAccepted(combined) ==
  firstMatchReturn(acceptedPatterns, 1, combined, acceptedExcluded(combined), acceptedVerdict)

Year4 == {"2025", "2026", "2027"}

dualEnrollmentIndicators == <<
  {Ph(<<"dual", "enrollment">>)},
  {<<W({"course"}), W({"registration", "deletion", "added", "dropped"})>>},
  {<<W({"spring"}), W(Year4), W({"course", "on-campus", "oncampus"})>>,
   <<W({"spring"}), W(Year4), W({"on"}), S1({"campus"})>>},
  {<<W({"how"}), W({"to"}), W({"register"}), G, W({"course", "courses", "class", "classes"})>>},
  {<<W({"cedarville"}), W({"university)"}), G, W({"course", "registration"})>>} >>

dualExcluded(combined) ==
  \/ Test({Ph(<<"learn", "more", "about">>), Ph(<<"interested", "in">>),
           Ph(<<"consider", "joining">>)}, combined)
  \/ Test({<<W({"freedom"}), W({"to"}), W({"explore"}), G, W({"academic"}), W({"interests"})>>,
           <<W({"majors,", "majors"}), W({"minors"}), W({"and"}), W({"more"})>>}, combined)

dualVerdict ==
  Verdict(TRUE, "Dual enrollment course information", 90, "dual_enrollment")

checkDualEnrollment(combined) ==
  firstMatchReturn(dualEnrollmentIndicators, 1, combined, dualExcluded(combined), dualVerdict)

\* /\bapply\s+for\s+(the\s+)?.*\bscholarship\b/, tested on the subject
applyForScholarship ==
  {<<W({"apply"}), W({"for"}), GW, W({"scholarship"})>>,
   <<W({"apply"}), W({"for"}), W({"the"}), GW, W({"scholarship"})>>}

namedProgram == {<<W({"president's", "presidents"})>>, <<W({"ministry"})>>, <<W({"impact"})>>}

PreAttend == {"attend", "attending", "attendance"}
DayEvent == {"day", "days", "event", "events"}
ReadyPhrase == <<W({"want", "wanted"}), W({"to"}), W({"make"}), W({"sure"}),
                 W({"you're", "youre"}), W({"ready"})>>

notAwardedPatterns == <<
  {<<W({"scholarship"}), G, W({"held", "reserved"}), W({"for"}), W({"you"})>>},
  {<<W({"held", "reserved"}), W({"for"}), W({"you"})>>},
  {<<W({"considered", "consideration"}), G, W({"scholarship"})>>},
  {<<W({"scholarship"}), G, W({"considered", "consideration"})>>},
  {<<W({"eligible"}), W({"for"}), G, W({"scholarship"})>>},
  {<<W({"scholarship"}), G, W({"eligible"})>>},
  {<<W({"may"}), W({"qualify"}), G, W({"scholarship"})>>},
  {Ph(<<"guaranteed", "admission">>)},
  {Ph(<<"priority", "consideration">>)},
  {<<W(PreAttend), G, W({"scholarship"}), W({"day", "event"})>>,
   <<W(PreAttend), G, W({"scholarship"}), W({"award"}), W({"event"})>>,
   <<W({"register"}), W({"for"}), G, W({"scholarship"}), W({"day", "event"})>>,
   <<W({"register"}), W({"for"}), G, W({"scholarship"}), W({"award"}), W({"event"})>>},
  {<<W({"scholarship"}), W(DayEvent), G, W({"attend", "register"})>>},
  {Ph(<<"soar", "event">>), Ph(<<"soar", "scholarship", "award", "event">>)},
  {<<W({"direct"}), W({"admission"}), G, W({"scholarship"}), W({"form"})>>},
  {<<W({"scholarship"}), W({"form"}), G, W({"direct"}), W({"admission"})>>},
  {<<W({"submit"}), GW, W({"scholarship"}), W({"form"})>>,
   <<W({"submit"}), W({"your"}), GW, W({"scholarship"}), W({"form"})>>},
  {ReadyPhrase \o <<G, W({"scholarship"})>>},
  {Ph(<<"scholarship", "estimate">>)},
  {<<W({"you"}), W({"have"}), W({"not"}), O({"yet"}), W({"seen"}), W({"your", "yours"}), G,
     W({"scholarship"})>>},
  {Ph(<<"academic", "scholarship", "estimate">>)},
  {<<W({"pre-admission"})>>, <<W({"pre"}), S1({"admission"})>>},
  {<<W({"scholarship"}), W({"deadline"}), W({"approaching", "soon"})>>},
  {<<W({"scholarship"}), G, W({"upon"}), W({"admission"})>>,
   <<W({"upon"}), W({"admission"}), G, W({"scholarship"})>>} >>

\* the not-awarded set read whatever the text mentions
mentionNotRequired(combined) == TRUE

\* the mention test reading the plural only
hasScholarshipsMention(combined) == Test({<<W({"scholarships"})>>}, combined)

hasScholarshipMention(combined) == Test({<<W({"scholarship"})>>}, combined)

awardedPatterns == <<
  {<<W({"congratulations"}), G, W({"scholarship"})>>},
  {<<W({"you"}), W({"have", "received", "won"}), G, W({"scholarship"})>>,
   <<W({"you"}), W({"are"}), W({"awarded"}), G, W({"scholarship"})>>},
  {<<W({"we"}), O({"are"}), W({"award", "awarding"}), G, W({"scholarship"})>>,
   <<W({"we"}), O({"are"}), W({"pleased"}), W({"to"}), W({"award", "awarding"}), G,
     W({"scholarship"})>>},
  {<<W({"scholarship"}), W({"offer", "award"})>>},
  {Ph(<<"received", "a", "scholarship">>)} >>

\* the application opportunity returned with a confidence under the threshold
opportunityVerdictUnsure ==
  Verdict(TRUE, "Scholarship application opportunity for accepted student", 45,
          "scholarship_application_opportunity")

opportunityVerdict ==
  Verdict(TRUE, "Scholarship application opportunity for accepted student", 75,
          "scholarship_application_opportunity")
\* the not-awarded verdict with pertains turned around
notAwardedVerdictPertains ==
  Verdict(TRUE, "Scholarship mentioned but not actually awarded (held/eligible/apply)", 90,
          "scholarship_not_awarded")

notAwardedVerdict ==
  Verdict(FALSE, "Scholarship mentioned but not actually awarded (held/eligible/apply)", 90,
          "scholarship_not_awarded")
awardedVerdict ==
  Verdict(TRUE, "Scholarship actually awarded", 95, "scholarship_awarded")

\* mutant of checkScholarship: the awarded patterns are tested before the not-awarded ones
checkScholarshipAwardedFirst(subject, combined) ==
  IF Test(applyForScholarship, subject) /\ Test(namedProgram, combined)
    THEN opportunityVerdict
  ELSE IF AnyTest(awardedPatterns, combined) THEN awardedVerdict
  ELSE IF hasScholarshipMention(combined) /\ AnyTest(notAwardedPatterns, combined)
    THEN notAwardedVerdict
  ELSE Null

\* checkScholarship with the application-opportunity test moved behind the
\* two pattern sets
checkScholarshipShortcutLast(subject, combined) ==
  IF hasScholarshipMention(combined) /\ AnyTest(notAwardedPatterns, combined)
    THEN notAwardedVerdict
  ELSE IF AnyTest(awardedPatterns, combined) THEN awardedVerdict
  ELSE IF Test(applyForScholarship, subject) /\ Test(namedProgram, combined)
    THEN opportunityVerdict
  ELSE Null

checkScholarship(subject, combined) ==
  IF Test(applyForScholarship, subject) /\ Test(namedProgram, combined)
    THEN opportunityVerdict
  ELSE IF hasScholarshipMention(combined) /\ AnyTest(notAwardedPatterns, combined)
    THEN notAwardedVerdict
  ELSE IF AnyTest(awardedPatterns, combined) THEN awardedVerdict
  ELSE Null

Ready2 == {"ready", "available"}

readyPatterns == <<
  {<<W({"financial"}), W({"aid"}), G, W({"offer"}), G, W(Ready2)>>},
  {<<W(Ready2), G, W({"financial"}), W({"aid"}), G, W({"offer"})>>},
  {<<W({"award"}), W({"letter"}), G, W({"ready", "available", "posted", "view"})>>},
  {<<W({"view", "review"}), O({"your"}), W({"award"}), W({"letter"})>>},
  {<<W({"financial"}), W({"aid"}), W({"package"}), G, W({"ready", "available", "posted"})>>},
  {Ph(<<"your", "aid", "is", "ready">>)} >>

notReadyPatterns == <<
  {<<W({"learn"}), W({"more"}), W({"about"}), G, W({"financial"}), W({"aid"})>>},
  {<<W({"apply"}), G, O({"for"}), W({"financial"}), W({"aid"})>>},
  {<<W({"financial"}), W({"aid"}), G, W({"application"})>>},
  {<<W({"complete"}), O({"your"}), W({"fafsa"})>>},
  {<<W({"considered"}), W({"for"}), G, W({"aid"})>>},
  {<<W({"priority"}), W({"deadline", "consideration"}), G, W({"financial"}), W({"aid"})>>} >>

aidVerdict ==
  Verdict(TRUE, "Financial aid offer ready to review", 95, "financial_aid_ready")

checkFinancialAid(combined) ==
  firstMatchReturn(readyPatterns, 1, combined, AnyTest(notReadyPatterns, combined), aidVerdict)

Havent == {"haven't", "havent"}
irrelevantPatterns == <<
  {Ph(<<"student", "life", "blog">>)},
  {<<W({"blog"}), W({"post", "update"})>>,
   <<W({"student"}), W({"life"}), W({"blog"}), W({"post", "update"})>>},
  {Ph(<<"new", "student", "life", "blog">>)},
  {<<W({"newsletter"})>>},
  {<<W({"weekly"}), W({"digest", "update"})>>},
  {Ph(<<"upcoming", "events">>)},
  {<<W({"join"}), W({"us"}), W({"for", "at"})>>, Ph(<<"join", "us", "on", "zoom">>)},
  {Ph(<<"open", "house">>)},
  {Ph(<<"virtual", "tour">>)},
  {<<W({"campus"}), W({"visit", "tour", "event"})>>},
  {<<W({"meet"}), W({"the", "our"}), W({"students", "faculty"})>>},
  {<<W(Havent), W({"applied"}), G, W({"yet"})>>},
  {Ph(<<"still", "time", "to", "apply">>)},
  {Ph(<<"how", "is", "your", "college", "search">>)},
  {<<W({"start"}), O({"your"}), W({"college"}), W({"search"})>>},
  {<<W({"explore"}), O({"our"}), W({"programs", "campus"})>>},
  {Ph(<<"i", "hope", "you", "have", "been", "receiving", "my", "emails">>)},
  {Ph(<<"am", "i", "reaching">>)},
  {<<W({"you"}), W({"are"}), W({"on"}), A0, W({"radar", "list"})>>},
  {<<W({"you're", "youre"}), W({"on"}), W({"our", "my"}), W({"radar"})>>},
  {Ph(<<"i", "want", "to", "make", "sure", "you", "know">>)},
  {<<W({"you're", "youre"}), W({"invited"}), W({"to"}), W({"submit"})>>},
  {<<W({"i'm", "im"}), W({"eager"}), W({"to"}), W({"consider"}), W({"you"})>>},
  {<<W({"submit"}), W({"your"}), A0, W({"application"})>>},
  {<<W({"priority"}), W({"status"}), G, W(PreSubmit), G, W({"application"})>>},
  {<<W({"top"}), W({"candidate"}), G, W({"invite"}), W({"you"}), W({"to"}), W({"apply"})>>},
  {Ph(<<"invite", "you", "to", "apply">>)},
  {<<W({"extended"}), G, W({"priority"}), W({"deadline"})>>},
  {<<W({"priority"}), W(PreDeadline), G, W({"extended"})>>},
  {<<W({"summer"}), W({"academy", "camp", "program"})>>},
  {Ph(<<"save", "the", "date">>)},
  {Ph(<<"ugly", "sweater">>)},
  {<<W({"it's", "its"}), A1, W({"season"})>>},
  {<<W({"join"}), W({"us"}), G, W({"virtual"}), W({"program"}), G, W({"scholarship"})>>,
   <<W({"join"}), W({"us"}), G, W({"virtual"}), W({"program"}), G, W({"financial"}), W({"aid"})>>,
   <<W({"join"}), W({"us"}), G, W({"zoom"}), G, W({"scholarship"})>>,
   <<W({"join"}), W({"us"}), G, W({"zoom"}), G, W({"financial"}), W({"aid"})>>},
  {<<W({"learn"}), W({"more"}), G, W({"scholarship"}), W({"opportunities", "options"})>>,
   <<W({"learn"}), W({"more"}), G, W({"financial"}), W({"aid"}),
     W({"opportunities", "options"})>>},
  {<<W({"scholarship"}), W({"opportunities", "options"}), G, W({"learn"}), W({"more"})>>,
   <<W({"financial"}), W({"aid"}), W({"opportunities", "options"}), G,
     W({"learn"}), W({"more"})>>} >>

marketingVerdict ==
  Verdict(FALSE, "Marketing/newsletter/unsolicited outreach", 95, "irrelevant_marketing")
notAppliedVerdict ==
  Verdict(FALSE, "Unsolicited email where student has not applied", 95, "not_applied")

checkIrrelevant(combined) ==
  IF AnyTest(irrelevantPatterns, combined) THEN marketingVerdict
  ELSE IF Test({<<W(Havent), W({"applied"})>>}, combined) THEN notAppliedVerdict
  ELSE Null

\* mutant of defaultVerdict: uncertainty resolved towards the inbox
defaultVerdictFailOpen ==
  Verdict(TRUE, "No clear relevance indicators found", 30, "default_not_relevant")

defaultVerdict ==
  Verdict(FALSE, "No clear relevance indicators found", 30, "default_not_relevant")
invalidVerdict ==
  Verdict(FALSE, "Invalid email object", 0, "invalid_input")

(***************************************************************************)
(* JavaScript values handed to classify                                    *)
(***************************************************************************)
Str(t) == [tag |-> "string", val |-> t]
Undefined == [tag |-> "undefined", val |-> <<>>]
JsNull == [tag |-> "null", val |-> <<>>]
Zero == [tag |-> "number0", val |-> <<>>]
Number == [tag |-> "number", val |-> <<>>]

\* x is falsy: undefined, null, "", 0
Falsy(x) == x.tag \in {"undefined", "null", "number0"} \/ (x.tag = "string" /\ x.val = <<>>)

\* (x || '')
orEmpty(x) == IF Falsy(x) THEN Str(<<>>) ELSE x

\* the call x.toLowerCase() raises a TypeError
lowerThrows(x) == x.tag # "string"

Threw == [pertains |-> FALSE, reason |-> "TypeError", confidence |-> 0, matched_rules |-> <<>>]

\* mutant of isObject: typeof null is 'object' and the !email test is missing
isObjectTypeofOnly(email) == email.kind \in {"object", "null"}

\* typeof email === 'object' && email
isObject(email) == email.kind = "object"

\* mutants of StageOrder: two adjacent calls swapped; the reply stage placed first
StageOrderSwapped == <<"security", "outreach", "accepted", "action", "dual", "scholarship",
                       "aid", "irrelevant">>
StageOrderOutreachFirst == <<"outreach", "security", "action", "accepted", "dual",
                             "scholarship", "aid", "irrelevant">>

\* the reply stage called after the dual-enrollment stage
StageOrderOutreachLate == <<"security", "action", "accepted", "dual", "outreach",
                            "scholarship", "aid", "irrelevant">>

StageOrder == <<"security", "outreach", "action", "accepted", "dual", "scholarship",
                "aid", "irrelevant">>

\* the checker called at a stage of classify
stageVerdict(stage, subject, combined) ==
  CASE stage = "security" -> checkSecurity(combined)
    [] stage = "outreach" -> checkStudentOutreach(subject, combined)
    [] stage = "action" -> checkStudentAction(combined)
    [] stage = "accepted" -> checkAccepted(combined)
    [] stage = "dual" -> checkDualEnrollment(combined)
    [] stage = "scholarship" -> checkScholarship(subject, combined)
    [] stage = "aid" -> checkFinancialAid(combined)
    [] stage = "irrelevant" -> checkIrrelevant(combined)

\* const xResult = this.checkX(...); if (xResult) return xResult;  from stage n on
RECURSIVE chainFrom(_, _, _)
chainFrom(n, subject, combined) ==
  IF n > Len(StageOrder) THEN defaultVerdict
  ELSE LET r == stageVerdict(StageOrder[n], subject, combined) IN
       IF r # Null THEN r ELSE chainFrom(n + 1, subject, combined)

\* `${subject} ${body}`
combine(subject, body) == subject \o body

\* EmailClassifier.classify as one call
classify(email) ==
  IF ~isObject(email) THEN invalidVerdict
  ELSE IF \/ lowerThrows(orEmpty(email.subject))
          \/ lowerThrows(orEmpty(email.body))
          \/ lowerThrows(orEmpty(email.from)) THEN Threw
  ELSE LET subject == toLowerCase(orEmpty(email.subject).val)
           body == toLowerCase(orEmpty(email.body).val)
       IN chainFrom(1, subject, combine(subject, body))

(***************************************************************************)
(* EmailClassifier of the root classifier.ts (the class the unit tests     *)
(* import): no defensive checks, no reply stage, fewer patterns            *)
(***************************************************************************)
acceptedExcludedBase(combined) ==
  \/ Test({Ph(<<"acceptance", "rate">>), Ph(<<"high", "acceptance">>),
           <<W({"pre-admit", "pre-admitted"})>>, <<W({"pre"}), S1({"admit", "admitted"})>>,
           Ph(<<"automatic", "admission">>)}, combined)
  \/ Test({<<W({"you"}), W({"will"}), O({"also"}), W({"receive"}), O({"a", "an"}),
             O({"accelerated"}), W({"admission"}), W({"decision"})>>}, combined)
  \/ Test({Ph(<<"receive", "an", "admission", "decision", "within">>)}, combined)

dualExcludedBase(combined) ==
  Test({Ph(<<"learn", "more", "about">>), Ph(<<"interested", "in">>),
        Ph(<<"consider", "joining">>)}, combined)

notAwardedPatternsBase == <<
  {<<W({"scholarship"}), G, W({"held", "reserved"}), W({"for"}), W({"you"})>>},
  {<<W({"held", "reserved"}), W({"for"}), W({"you"})>>},
  {<<W({"considered", "consideration"}), G, W({"scholarship"})>>},
  {<<W({"scholarship"}), G, W({"considered", "consideration"})>>},
  {<<W({"eligible"}), W({"for"}), G, W({"scholarship"})>>},
  {<<W({"scholarship"}), G, W({"eligible"})>>},
  {<<W({"may"}), W({"qualify"}), G, W({"scholarship"})>>},
  {Ph(<<"guaranteed", "admission">>)},
  {Ph(<<"priority", "consideration">>)} >>

irrelevantPatternsBase == <<
  {Ph(<<"student", "life", "blog">>)},
  {<<W({"blog"}), W({"post", "update"})>>,
   <<W({"student"}), W({"life"}), W({"blog"}), W({"post", "update"})>>},
  {Ph(<<"new", "student", "life", "blog">>)},
  {<<W({"newsletter"})>>},
  {<<W({"weekly"}), W({"digest", "update"})>>},
  {Ph(<<"upcoming", "events">>)},
  {<<W({"join"}), W({"us"}), W({"for", "at"})>>},
  {Ph(<<"open", "house">>)},
  {Ph(<<"virtual", "tour">>)},
  {<<W({"campus"}), W({"visit", "tour", "event"})>>},
  {<<W({"meet"}), W({"the", "our"}), W({"students", "faculty"})>>},
  {<<W(Havent), W({"applied"}), G, W({"yet"})>>},
  {Ph(<<"still", "time", "to", "apply">>)},
  {Ph(<<"how", "is", "your", "college", "search">>)},
  {<<W({"start"}), O({"your"}), W({"college"}), W({"search"})>>},
  {<<W({"explore"}), O({"our"}), W({"programs", "campus"})>>},
  {Ph(<<"i", "hope", "you", "have", "been", "receiving", "my", "emails">>)},
  {Ph(<<"am", "i", "reaching">>)},
  {<<W({"you"}), W({"are"}), W({"on"}), A0, W({"radar", "list"})>>},
  {Ph(<<"i", "want", "to", "make", "sure", "you", "know">>)},
  {<<W({"you're", "youre"}), W({"invited"}), W({"to"}), W({"submit"})>>},
  {<<W({"i'm", "im"}), W({"eager"}), W({"to"}), W({"consider"}), W({"you"})>>},
  {<<W({"submit"}), W({"your"}), A0, W({"application"})>>},
  {<<W({"priority"}), W({"status"}), G, W(PreSubmit), G, W({"application"})>>},
  {<<W({"extended"}), G, W({"priority"}), W({"deadline"})>>},
  {<<W({"priority"}), W(PreDeadline), G, W({"extended"})>>},
  {<<W({"summer"}), W({"academy", "camp", "program"})>>},
  {Ph(<<"save", "the", "date">>)},
  {Ph(<<"ugly", "sweater">>)},
  {<<W({"it's", "its"}), A1, W({"season"})>>} >>

\* the chain of classifier.ts lines 12-46
classifyChainBase(subject, combined) ==
  LET security == checkSecurity(combined)
      action == checkStudentAction(combined)
      accepted == firstMatchReturn(acceptedPatterns, 1, combined,
                                   acceptedExcludedBase(combined), acceptedVerdict)
      dual == firstMatchReturn(dualEnrollmentIndicators, 1, combined,
                               dualExcludedBase(combined), dualVerdict)
      scholarship ==
        IF Test(applyForScholarship, subject) /\ Test(namedProgram, combined)
          THEN opportunityVerdict
        ELSE IF hasScholarshipMention(combined) /\ AnyTest(notAwardedPatternsBase, combined)
          THEN notAwardedVerdict
        ELSE IF AnyTest(awardedPatterns, combined) THEN awardedVerdict
        ELSE Null
      aid == checkFinancialAid(combined)
      irrelevant ==
        IF AnyTest(irrelevantPatternsBase, combined) THEN marketingVerdict
        ELSE IF Test({<<W(Havent), W({"applied"})>>}, combined) THEN notAppliedVerdict
        ELSE Null
  IN IF security # Null THEN security
     ELSE IF action # Null THEN action
     ELSE IF accepted # Null THEN accepted
     ELSE IF dual # Null THEN dual
     ELSE IF scholarship # Null THEN scholarship
     ELSE IF aid # Null THEN aid
     ELSE IF irrelevant # Null THEN irrelevant
     ELSE defaultVerdict

\* classify of classifier.ts: email.subject.toLowerCase() etc. without any guard
classifyBase(email) ==
  IF ~isObject(email) THEN Threw
  ELSE IF lowerThrows(email.subject) \/ lowerThrows(email.body) \/ lowerThrows(email.from)
    THEN Threw
  ELSE LET subject == toLowerCase(email.subject.val)
           body == toLowerCase(email.body.val)
       IN classifyChainBase(subject, combine(subject, body))

(***************************************************************************)
(* classifyEmail of apps-script/Code.ts, the classifier bundled with the   *)
(* deployed script: plain functions, results without matched_rules         *)
(***************************************************************************)
\* { pertains, reason, confidence }: the result carries no matched_rules
ResultDeployed(p, r, c) ==
  [pertains |-> p, reason |-> r, confidence |-> c, matched_rules |-> <<>>]

\* the loop with `continue` where the exclusion is honoured for the first pattern only
RECURSIVE firstMatchContinueFirstOnly(_, _, _, _, _)
firstMatchContinueFirstOnly(patterns, n, t, excluded, verdict) ==
  IF n > Len(patterns) THEN Null
  ELSE IF Test(patterns[n], t) /\ ~(excluded /\ n = 1) THEN verdict
  ELSE firstMatchContinueFirstOnly(patterns, n + 1, t, excluded, verdict)

\* for (let i = 0; ...) { if (patterns[i].test(combined)) { if (exclusion) continue;
\* return verdict; } } return null;
RECURSIVE firstMatchContinue(_, _, _, _, _)
firstMatchContinue(patterns, n, t, excluded, verdict) ==
  IF n > Len(patterns) THEN Null
  ELSE IF Test(patterns[n], t) /\ ~excluded THEN verdict
  ELSE firstMatchContinue(patterns, n + 1, t, excluded, verdict)

checkSecurityDeployed(combined) ==
  firstMatchContinue(securityPatterns, 1, combined, Test(securityExclusion, combined),
                     ResultDeployed(TRUE, "Security/password alert", 100))

checkStudentActionDeployed(combined) ==
  firstMatchContinue(actionPatterns, 1, combined, Test(actionExclusion, combined),
                     ResultDeployed(TRUE, "Application/enrollment confirmation", 95))

checkAcceptedDeployed(combined) ==
  firstMatchContinue(acceptedPatterns, 1, combined, acceptedExcludedBase(combined),
                     ResultDeployed(TRUE, "Accepted student information", 95))

\* the four patterns of Code.ts are the first four of the class
dualPatternsDeployed == SubSeq(dualEnrollmentIndicators, 1, 4)

checkDualEnrollmentDeployed(combined) ==
  firstMatchContinue(dualPatternsDeployed, 1, combined, dualExcludedBase(combined),
                     ResultDeployed(TRUE, "Dual enrollment course information", 90))

\* the seven not-awarded patterns of Code.ts are the first seven of classifier.ts
notAwardedPatternsDeployed == SubSeq(notAwardedPatternsBase, 1, 7)

\* the four awarded patterns of Code.ts are the first four of the class
awardedPatternsDeployed == SubSeq(awardedPatterns, 1, 4)

checkScholarshipDeployed(subject, combined) ==
  IF Test(applyForScholarship, subject) /\ Test(namedProgram, combined)
    THEN ResultDeployed(TRUE, "Scholarship application opportunity", 75)
  ELSE IF hasScholarshipMention(combined) /\ AnyTest(notAwardedPatternsDeployed, combined)
    THEN ResultDeployed(FALSE, "Scholarship not actually awarded", 90)
  ELSE IF AnyTest(awardedPatternsDeployed, combined)
    THEN ResultDeployed(TRUE, "Scholarship awarded", 95)
  ELSE Null

readyPatternsDeployed == <<
  {<<W({"financial"}), W({"aid"}), G, W({"offer"}), G, W(Ready2)>>},
  {<<W({"award"}), W({"letter"}), G, W({"ready", "available", "posted", "view"})>>},
  {<<W({"view", "review"}), O({"your"}), W({"award"}), W({"letter"})>>},
  {Ph(<<"your", "aid", "is", "ready">>)} >>

notReadyPatternsDeployed == <<
  {<<W({"learn"}), W({"more"}), W({"about"}), G, W({"financial"}), W({"aid"})>>},
  {<<W({"apply"}), G, O({"for"}), W({"financial"}), W({"aid"})>>},
  {<<W({"complete"}), O({"your"}), W({"fafsa"})>>},
  {<<W({"priority"}), W({"deadline", "consideration"}), G, W({"financial"}), W({"aid"})>>} >>

\* the inner loop returns null from the function at the first not-ready match
checkFinancialAidDeployed(combined) ==
  firstMatchReturn(readyPatternsDeployed, 1, combined,
                   AnyTest(notReadyPatternsDeployed, combined),
                   ResultDeployed(TRUE, "Financial aid offer ready", 95))

irrelevantPatternsDeployed == <<
  {Ph(<<"student", "life", "blog">>)},
  {<<W({"newsletter"})>>},
  {<<W({"weekly"}), W({"digest", "update"})>>},
  {Ph(<<"upcoming", "events">>)},
  {<<W({"join"}), W({"us"}), W({"for", "at"})>>},
  {Ph(<<"open", "house">>)},
  {Ph(<<"virtual", "tour">>)},
  {<<W(Havent), W({"applied"}), G, W({"yet"})>>},
  {Ph(<<"still", "time", "to", "apply">>)},
  {Ph(<<"how", "is", "your", "college", "search">>)},
  {<<W({"extended"}), G, W({"priority"}), W({"deadline"})>>},
  {<<W({"priority"}), W(PreDeadline), G, W({"extended"})>>},
  {<<W({"summer"}), W({"academy", "camp", "program"})>>},
  {Ph(<<"ugly", "sweater">>)},
  {Ph(<<"i", "hope", "you", "have", "been", "receiving", "my", "emails">>)},
  {Ph(<<"am", "i", "reaching">>)},
  {<<W({"you"}), W({"are"}), W({"on"}), A0, W({"radar", "list"})>>},
  {Ph(<<"i", "want", "to", "make", "sure", "you", "know">>)},
  {<<W({"you're", "youre"}), W({"invited"}), W({"to"}), W({"submit"})>>},
  {<<W({"i'm", "im"}), W({"eager"}), W({"to"}), W({"consider"}), W({"you"})>>},
  {<<W({"submit"}), W({"your"}), A0, W({"application"})>>},
  {<<W({"priority"}), W({"status"}), G, W(PreSubmit), G, W({"application"})>>} >>

checkIrrelevantDeployed(combined) ==
  IF AnyTest(irrelevantPatternsDeployed, combined)
    THEN ResultDeployed(FALSE, "Marketing/newsletter/spam", 95)
  ELSE IF Test({<<W(Havent), W({"applied"})>>}, combined)
    THEN ResultDeployed(FALSE, "Unsolicited outreach", 95)
  ELSE Null

defaultResultDeployed == ResultDeployed(FALSE, "No clear relevance indicators", 30)

\* the chain of classifyEmail, Code.ts lines 175-205
classifyChainDeployed(subject, combined) ==
  LET security == checkSecurityDeployed(combined)
      action == checkStudentActionDeployed(combined)
      accepted == checkAcceptedDeployed(combined)
      dual == checkDualEnrollmentDeployed(combined)
      scholarship == checkScholarshipDeployed(subject, combined)
      aid == checkFinancialAidDeployed(combined)
      irrelevant == checkIrrelevantDeployed(combined)
  IN IF security # Null THEN security
     ELSE IF action # Null THEN action
     ELSE IF accepted # Null THEN accepted
     ELSE IF dual # Null THEN dual
     ELSE IF scholarship # Null THEN scholarship
     ELSE IF aid # Null THEN aid
     ELSE IF irrelevant # Null THEN irrelevant
     ELSE defaultResultDeployed

\* classifyEmail of Code.ts: meta.subject.toLowerCase(), meta.body.toLowerCase()
classifyEmailDeployed(meta) ==
  IF ~isObject(meta) THEN Threw
  ELSE IF lowerThrows(meta.subject) \/ lowerThrows(meta.body) THEN Threw
  ELSE LET subject == toLowerCase(meta.subject.val)
           body == toLowerCase(meta.body.val)
       IN classifyChainDeployed(subject, combine(subject, body))

(***************************************************************************)
(* Inputs                                                                  *)
(***************************************************************************)
MaxBodyPhrases == 2

Subjects ==
  { <<>>,
    <<"Hello">>,
    <<"Password", "Reset", "Required">>,
    <<"Re:", "Your", "Question">>,
    <<"Application", "Received">>,
    <<"Apply", "for", "the", "President's", "Scholarship">>,
    <<"Scholarship", "Reserved", "For", "You">>,
    <<"Your", "Accepted", "Portal">>,
    <<"How", "to", "Apply">>,
    <<"Student", "Life", "Blog">> }

BodyPhrases ==
  { <<"thank", "you", "for", "reaching", "out">>,
    <<"apply", "now">>,
    <<"acceptance", "rate">>,
    <<"course", "registration">>,
    <<"learn", "more", "about">>,
    <<"you", "received", "a", "scholarship", "offer">>,
    <<"eligible", "for", "a", "scholarship">>,
    <<"your", "aid", "is", "ready">>,
    <<"security", "alert">> }

RECURSIVE BodiesUpTo(_)
BodiesUpTo(n) ==
  IF n = 0 THEN {<<>>}
  ELSE LET shorter == BodiesUpTo(n - 1) IN
       shorter \cup {b \o ph : b \in shorter, ph \in BodyPhrases}

Bodies == BodiesUpTo(MaxBodyPhrases)

From == Str(<<"admissions@college.edu">>)

WellFormed ==
  {[kind |-> "object", subject |-> Str(s), body |-> Str(b), from |-> From] :
     s \in Subjects, b \in Bodies}

FieldValues == {Undefined, JsNull, Zero, Number, Str(<<>>), Str(<<"Password", "Reset">>)}

Malformed ==
  {[kind |-> k, subject |-> Undefined, body |-> Undefined, from |-> Undefined] :
     k \in {"null", "undefined", "string", "number", "boolean"}}
  \cup {[kind |-> "object", subject |-> s, body |-> b, from |-> f] :
          s \in FieldValues, b \in FieldValues, f \in FieldValues}

\* emails of the test suite and their neighbours: (subject, body) pairs the
\* phrase books above do not produce
Examples ==
  {[kind |-> "object", subject |-> Str(e[1]), body |-> Str(e[2]), from |-> From] :
     e \in { <<<<"How", "to", "Apply">>,
               <<"Learn", "how", "to", "apply", "to", "our", "university">>>>,
             <<<<"Apply", "for", "the", "Scholarship">>, <<>>>>,
             <<<<"Apply", "for", "the", "Scholarship">>,
               <<"eligible", "for", "a", "scholarship">>>>,
             <<<<"Apply", "for", "the", "Scholarship">>,
               <<"you", "received", "a", "scholarship", "offer">>>>,
             <<<<"Hello">>, <<"held", "for", "you">>>>,
             <<<<"Hello">>, <<"you", "haven't", "applied">>>>,
             <<<<"Password", "Reset", "Required">>,
               <<"security", "alert", "savings", "on", "tuition">>>>,
             <<<<"Application", "Received">>,
               <<"thank", "you", "for", "applying", "how", "to", "apply">>>>,
             <<<<"Hello">>, <<"guaranteed", "admission">>>>,
             <<<<"Hello">>, <<"guaranteed", "admission", "your", "aid", "is", "ready">>>> }}

Inputs == WellFormed \cup Examples \cup Malformed

(***************************************************************************)
(* classify, statement by statement                                        *)
(***************************************************************************)
VARIABLES input, pc, subject, combined, tried, result

\* the mailbox and one execution of runTriage (wrapper.ts)
VARIABLES dryRun, mailbox, threads, idx, stats, running, log

\* what classifyEmail returns for each mail of the mailbox, a function of the
\* mail that is worked out once
VARIABLE verdicts

\* the project's triggers (handler function of each, in the order
\* ScriptApp.getProjectTriggers() lists them) and the calls of setupTriggers made
VARIABLES triggers, setups

\* import-labeled.ts: the emails of the dataset file, the emails of the labeled
\* file given on the command line, the number of times the dataset file was
\* written, and whether main has run
VARIABLES dataset, newData, writes, imported

\* label.ts: the prompt main waits at, the index i of its loop, the answer to
\* the relevance prompt awaiting its reason, the array labeled, the content of
\* the output file, and the index at which q was answered (0: nowhere)
VARIABLES prompting, emailIdx, pertainsInput, labeled, outputFile, quitAt

tvars == <<dryRun, mailbox, threads, idx, stats, running, log, verdicts>>

cvars == <<input, pc, subject, combined, tried, result>>

gvars == <<triggers, setups>>

ivars == <<dataset, newData, writes, imported>>

lvars == <<prompting, emailIdx, pertainsInput, labeled, outputFile, quitAt>>

svars == <<gvars, ivars, lvars>>

vars == <<input, pc, subject, combined, tried, result,
          dryRun, mailbox, threads, idx, stats, running, log, verdicts,
          triggers, setups, dataset, newData, writes, imported,
          prompting, emailIdx, pertainsInput, labeled, outputFile, quitAt>>

\* setupTriggers is not exercised
NoTriggers == triggers = <<>> /\ setups = 0

\* import-labeled.ts is not exercised
NoImport == dataset = <<>> /\ newData = <<>> /\ writes = 0 /\ imported = FALSE

\* label.ts is not exercised
NoLabel ==
  /\ prompting = "off" /\ emailIdx = 0 /\ pertainsInput = "" /\ labeled = <<>>
  /\ outputFile = <<>> /\ quitAt = 0

NoScripts == NoTriggers /\ NoImport /\ NoLabel

\* let stats = { wouldInbox: 0, ... }
zeroStats ==
  [wouldInbox |-> 0, wouldFiltered |-> 0, didInbox |-> 0, didFiltered |-> 0,
   errors |-> 0, skipped |-> 0]

\* no triage is deployed while classify is exercised on its own
NoTriage ==
  /\ dryRun = TRUE
  /\ mailbox = <<>>
  /\ threads = <<>>
  /\ idx = 0
  /\ stats = zeroStats
  /\ running = FALSE
  /\ log = <<>>
  /\ verdicts = <<>>

InitClassify ==
  /\ input \in Inputs
  /\ pc = "start"
  /\ subject = <<>>
  /\ combined = <<>>
  /\ tried = <<>>
  /\ result = Null
  /\ NoTriage
  /\ NoScripts

\* if (!email || typeof email !== 'object') return {invalid}
Validate ==
  /\ pc = "start"
  /\ IF isObject(input)
       THEN pc' = "normalize" /\ result' = result
       ELSE pc' = "done" /\ result' = invalidVerdict
  /\ UNCHANGED <<input, subject, combined, tried>>
  /\ UNCHANGED <<tvars, svars>>

\* const subject = (email.subject || '').toLowerCase(); ... const combined = ...
Normalize ==
  /\ pc = "normalize"
  /\ IF \/ lowerThrows(orEmpty(input.subject))
        \/ lowerThrows(orEmpty(input.body))
        \/ lowerThrows(orEmpty(input.from))
       THEN /\ pc' = "done"
            /\ result' = Threw
            /\ UNCHANGED <<subject, combined>>
       ELSE /\ pc' = StageOrder[1]
            /\ subject' = toLowerCase(orEmpty(input.subject).val)
            /\ combined' = combine(toLowerCase(orEmpty(input.subject).val),
                                   toLowerCase(orEmpty(input.body).val))
            /\ result' = result
  /\ UNCHANGED <<input, tried>>
  /\ UNCHANGED <<tvars, svars>>

\* const r = this.checkX(subject, body, combined); if (r) return r;
Stage(n) ==
  /\ pc = StageOrder[n]
  /\ tried' = Append(tried, StageOrder[n])
  /\ LET r == stageVerdict(StageOrder[n], subject, combined) IN
     IF r # Null
       THEN pc' = "done" /\ result' = r
       ELSE /\ pc' = IF n < Len(StageOrder) THEN StageOrder[n + 1] ELSE "default"
            /\ result' = result
  /\ UNCHANGED <<input, subject, combined>>
  /\ UNCHANGED <<tvars, svars>>

StageSecurity == Stage(1)
StageOutreach == Stage(2)
StageAction == Stage(3)
StageAccepted == Stage(4)
StageDual == Stage(5)
StageScholarship == Stage(6)
StageAid == Stage(7)
StageIrrelevant == Stage(8)

\* return { pertains: false, reason: "No clear relevance indicators found", ... }
ReturnDefault ==
  /\ pc = "default"
  /\ pc' = "done"
  /\ result' = defaultVerdict
  /\ UNCHANGED <<input, subject, combined, tried>>
  /\ UNCHANGED <<tvars, svars>>

\* one call of classify of the root classifier.ts
ClassifyBase ==
  /\ pc = "start"
  /\ pc' = "doneBase"
  /\ result' = classifyBase(input)
  /\ UNCHANGED <<input, subject, combined, tried>>
  /\ UNCHANGED <<tvars, svars>>

\* one call of classifyEmail of apps-script/Code.ts
ClassifyDeployed ==
  /\ pc = "start"
  /\ pc' = "doneDeployed"
  /\ result' = classifyEmailDeployed(input)
  /\ UNCHANGED <<input, subject, combined, tried>>
  /\ UNCHANGED <<tvars, svars>>

Next ==
  \/ ClassifyBase
  \/ ClassifyDeployed
  \/ Validate
  \/ Normalize
  \/ StageSecurity
  \/ StageOutreach
  \/ StageAction
  \/ StageAccepted
  \/ StageDual
  \/ StageScholarship
  \/ StageAid
  \/ StageIrrelevant
  \/ ReturnDefault

Spec == InitClassify /\ [][Next]_vars

(***************************************************************************)
(* Properties of EmailClassifier.classify                                  *)
(***************************************************************************)
\* classify got past its defensive checks and normalised the fields
Normalized(email) ==
  /\ isObject(email)
  /\ ~lowerThrows(orEmpty(email.subject))
  /\ ~lowerThrows(orEmpty(email.body))
  /\ ~lowerThrows(orEmpty(email.from))

Returned == pc = "done" /\ Normalized(input)

ClaimedOrder == <<"security", "outreach", "action", "accepted", "dual", "scholarship",
                  "aid", "irrelevant">>

\* the stages of the claimed order that yield a verdict on the normalised text
Yielding == {n \in 1..Len(ClaimedOrder) :
               stageVerdict(ClaimedOrder[n], subject, combined) # Null}

FirstYielding == CHOOSE n \in Yielding : \A m \in Yielding : n <= m

C2_SecurityFirst ==
  (Returned /\ AnyTest(securityPatterns, combined) /\ ~Test(securityExclusion, combined))
    => /\ result.pertains = TRUE
       /\ result.confidence = 100
       /\ result.matched_rules = <<"security_alert">>

\* a security alert in a reply that also acknowledges the student's mail
C2_Witness ==
  /\ Returned
  /\ AnyTest(securityPatterns, combined) /\ ~Test(securityExclusion, combined)
  /\ checkStudentOutreach(subject, combined) # Null
  /\ result.matched_rules = <<"security_alert">>

\* the stages whose checker has exclusions, with their triggers, exclusions and rule ids
Vetoable == {"security", "action", "accepted", "dual", "aid"}

triggerMatches(stage, t) ==
  CASE stage = "security" -> AnyTest(securityPatterns, t)
    [] stage = "action" -> AnyTest(actionPatterns, t)
    [] stage = "accepted" -> AnyTest(acceptedPatterns, t)
    [] stage = "dual" -> AnyTest(dualEnrollmentIndicators, t)
    [] stage = "aid" -> AnyTest(readyPatterns, t)

exclusionMatches(stage, t) ==
  CASE stage = "security" -> Test(securityExclusion, t)
    [] stage = "action" -> Test(actionExclusion, t)
    [] stage = "accepted" -> acceptedExcluded(t)
    [] stage = "dual" -> dualExcluded(t)
    [] stage = "aid" -> AnyTest(notReadyPatterns, t)

ruleId(stage) ==
  CASE stage = "security" -> "security_alert"
    [] stage = "action" -> "student_action_confirmation"
    [] stage = "accepted" -> "accepted_student"
    [] stage = "dual" -> "dual_enrollment"
    [] stage = "aid" -> "financial_aid_ready"

Position(stage) == CHOOSE n \in 1..Len(ClaimedOrder) : ClaimedOrder[n] = stage

Vetoed(stage) == triggerMatches(stage, combined) /\ exclusionMatches(stage, combined)

\* what the stages after `stage` yield, stage by stage in the claimed order
RECURSIVE LaterStages(_)
LaterStages(n) ==
  IF n > Len(ClaimedOrder) THEN defaultVerdict
  ELSE IF stageVerdict(ClaimedOrder[n], subject, combined) # Null
    THEN stageVerdict(ClaimedOrder[n], subject, combined)
  ELSE LaterStages(n + 1)

\* C3 as stated: whenever a checker's trigger and exclusion both match, the
\* checker yields nothing, its rule id is not returned, and the result is
\* exactly what the stages after it yield.
C3_Original ==
  Returned =>
    \A stage \in Vetoable :
      Vetoed(stage) =>
        /\ stageVerdict(stage, subject, combined) = Null
        /\ result.matched_rules # <<ruleId(stage)>>
        /\ result = LaterStages(Position(stage) + 1)

\* C3: whenever a checker's trigger and exclusion both match, the checker
\* yields nothing and its rule id is not returned; the result is the verdict of
\* an earlier stage if one yielded, and otherwise exactly what the stages after
\* the vetoed checker yield.
C3_ExclusionVoidsTrigger ==
  Returned =>
    \A stage \in Vetoable :
      Vetoed(stage) =>
        /\ stageVerdict(stage, subject, combined) = Null
        /\ result.matched_rules # <<ruleId(stage)>>
        /\ IF \E n \in Yielding : n < Position(stage)
             THEN result = stageVerdict(ClaimedOrder[FirstYielding], subject, combined)
             ELSE result = LaterStages(Position(stage) + 1)

\* an accepted-student trigger vetoed by an exclusion, the mail then decided by
\* the Financial Aid stage
C3_Witness ==
  /\ Returned
  /\ Vetoed("accepted")
  /\ "accepted" \in {tried[i] : i \in 1..Len(tried)}
  /\ result = aidVerdict

ScholarshipDecides ==
  /\ \A n \in Yielding : n >= Position("scholarship")
  /\ ~(Test(applyForScholarship, subject) /\ Test(namedProgram, combined))

NoTrigger ==
  /\ \A stage \in Vetoable : ~triggerMatches(stage, combined)
  /\ ~(isReply(subject) /\ AnyTest(responsePatterns, combined))
  /\ ~Test(applyForScholarship, subject)
  /\ ~AnyTest(notAwardedPatterns, combined)
  /\ ~AnyTest(awardedPatterns, combined)
  /\ ~AnyTest(irrelevantPatterns, combined)
  /\ ~Test({<<W(Havent), W({"applied"})>>}, combined)

\* C5: when no stage yields a verdict (in particular when no trigger pattern
\* matches), classify returns pertains=false, confidence 0.3 (< 0.5), reason
\* "No clear relevance indicators found", matched_rules =
\* ["default_not_relevant"]; a Default verdict is never pertains=true.
C5_DefaultFailClosed ==
  Returned =>
    /\ (Yielding = {} \/ NoTrigger) =>
         /\ result.pertains = FALSE
         /\ result.confidence = 30 /\ result.confidence < 50
         /\ result.reason = "No clear relevance indicators found"
         /\ result.matched_rules = <<"default_not_relevant">>
    /\ result.matched_rules = <<"default_not_relevant">> => result.pertains = FALSE

\* a mail with content that no stage recognises
C5_Witness ==
  /\ Returned
  /\ combined # <<>>
  /\ NoTrigger
  /\ tried = ClaimedOrder
  /\ result.matched_rules = <<"default_not_relevant">>

\* C7: for an input that is not an object (null, undefined, string, number,
\* boolean) classify returns pertains=false, confidence 0.0, reason "Invalid
\* email object", matched_rules = ["invalid_input"], and it does so before any
\* normalisation or checker has run.
C7_InvalidInput ==
  (pc = "done" /\ input.kind \in {"null", "undefined", "string", "number", "boolean"})
    => /\ result.pertains = FALSE
       /\ result.confidence = 0
       /\ result.reason = "Invalid email object"
       /\ result.matched_rules = <<"invalid_input">>
       /\ tried = <<>>
       /\ subject = <<>> /\ combined = <<>>

\* classify(null) has returned
C7_Witness == pc = "done" /\ input.kind = "null" /\ result = invalidVerdict

\* C6: classify never throws: for every input value it returns a
\* ClassificationResult.
C6_NeverThrows == pc = "done" => result # Threw

\* the record with "" in place of absent or null subject, body and from
filled(email) ==
  [email EXCEPT !.subject = IF @.tag \in {"undefined", "null"} THEN Str(<<>>) ELSE @,
                !.body = IF @.tag \in {"undefined", "null"} THEN Str(<<>>) ELSE @,
                !.from = IF @.tag \in {"undefined", "null"} THEN Str(<<>>) ELSE @]

\* an object whose subject, body and from are strings, absent or null
AbsentOrString(email) ==
  /\ isObject(email)
  /\ \A f \in {email.subject, email.body, email.from} :
       f.tag \in {"string", "undefined", "null"}

\* C8: a record with absent or null subject, body or from is classified without
\* throwing and exactly as the record with "" in their place; with subject and
\* body both absent or empty the result is the Default verdict.
C8_AbsentAsEmpty ==
  (pc = "doneBase" /\ AbsentOrString(input))
    => /\ result # Threw
       /\ result = classifyBase(filled(input))
       /\ (filled(input).subject.val = <<>> /\ filled(input).body.val = <<>>)
            => result = defaultVerdict

(***************************************************************************)
(* The dispatcher: runTriage, processThread and the two actions            *)
(* (src/apps-script/wrapper.ts; Code.ts carries the same dispatcher)       *)
(***************************************************************************)
AUTO_LABEL_NAME == "College/Auto"
FILTERED_LABEL_NAME == "College/Filtered"
APPROVED_LABEL_NAME == "College"

\* threads in the mailbox, threads fetched by one run, characters kept of a body
\* (in words), all scaled down
NumThreads == 3
MAX_THREADS_PER_RUN == 2
BodyMaxLen == 5

\* safeStr without the trim()
safeStrNoTrim(s, maxLen) ==
  IF s.tag \in {"null", "undefined"} THEN Str(<<>>)
  ELSE IF maxLen # 0 /\ Len(s.val) > maxLen THEN Str(SubSeq(s.val, 1, maxLen)) ELSE Str(s.val)

\* safeStr(s, maxLen): null and undefined become "", the text is trimmed and cut
safeStr(s, maxLen) ==
  IF s.tag \in {"null", "undefined"} THEN Str(<<>>)
  ELSE LET str == trim(s.val) IN
       IF maxLen # 0 /\ Len(str) > maxLen THEN Str(SubSeq(str, 1, maxLen)) ELSE Str(str)

\* the last message of a thread, as getSubject / getPlainBody / getFrom return it
Mails ==
  { [subject |-> Str(<<"Password", "Reset", "Required">>), plainBody |-> Str(<<>>),
     from |-> From],
    [subject |-> Str(<<"Student", "Life", "Blog">>), plainBody |-> Str(<<"newsletter">>),
     from |-> From],
    [subject |-> JsNull, plainBody |-> Str(<<NL, NL>>), from |-> From] }

\* a mail whose body is longer than safeStr keeps
LongMail ==
  [subject |-> Str(<<"Hello">>),
   plainBody |-> Str(<<NL, "hello", "hello", "hello", "hello", "security", "alert">>),
   from |-> From]

NoMail == [subject |-> JsNull, plainBody |-> JsNull, from |-> JsNull]

\* threads as the Gmail filter files them: under College/Auto, in the inbox or not
FreshThreads ==
  {[hasMsg |-> TRUE, mail |-> m, labels |-> {AUTO_LABEL_NAME}, inInbox |-> b] :
     m \in Mails, b \in BOOLEAN}
  \cup {[hasMsg |-> TRUE, mail |-> LongMail, labels |-> {AUTO_LABEL_NAME}, inInbox |-> TRUE],
        [hasMsg |-> FALSE, mail |-> NoMail, labels |-> {AUTO_LABEL_NAME}, inInbox |-> FALSE]}

\* const meta = { subject: safeStr(...), body: safeStr(..., 10000), from: safeStr(...) }
metaOf(mail) ==
  [kind |-> "object", subject |-> safeStr(mail.subject, 0),
   body |-> safeStr(mail.plainBody, BodyMaxLen), from |-> safeStr(mail.from, 0)]

\* !meta.subject && !meta.body
noContent(meta) == meta.subject.val = <<>> /\ meta.body.val = <<>>

\* export function classifyEmail(email) { return classifier.classify(email); }
classifyEmail(email) == classify(email)

\* the effect of one Gmail call on a thread
applyCall(th, c) ==
  CASE c = "removeLabel(autoLabel)" -> [th EXCEPT !.labels = @ \ {AUTO_LABEL_NAME}]
    [] c = "removeLabel(filteredLabel)" -> [th EXCEPT !.labels = @ \ {FILTERED_LABEL_NAME}]
    [] c = "addLabel(approvedLabel)" -> [th EXCEPT !.labels = @ \cup {APPROVED_LABEL_NAME}]
    [] c = "addLabel(filteredLabel)" -> [th EXCEPT !.labels = @ \cup {FILTERED_LABEL_NAME}]
    [] c = "moveToInbox" -> [th EXCEPT !.inInbox = TRUE]
    [] c = "moveToArchive" -> [th EXCEPT !.inInbox = FALSE]
    [] OTHER -> th

RECURSIVE applyCalls(_, _)
applyCalls(th, cs) ==
  IF cs = <<>> THEN th ELSE applyCalls(applyCall(th, Head(cs)), Tail(cs))

\* applyInboxAction without the test of DRY_RUN
inboxCallsIgnoringDryRun(dry) ==
  <<"removeLabel(autoLabel)", "removeLabel(filteredLabel)", "addLabel(approvedLabel)",
    "moveToInbox">>

\* the Gmail calls of applyInboxAction, in order
inboxCalls(dry) ==
  IF dry THEN <<>>
  ELSE <<"removeLabel(autoLabel)", "removeLabel(filteredLabel)", "addLabel(approvedLabel)",
         "moveToInbox">>

\* mutant of filteredCalls: the thread is labelled but never archived
filteredCallsNoArchive(th, dry) ==
  IF dry THEN <<>> ELSE <<"removeLabel(autoLabel)", "addLabel(filteredLabel)", "isInInbox">>

\* the Gmail calls of applyFilteredAction, in order
filteredCalls(th, dry) ==
  IF dry THEN <<>>
  ELSE <<"removeLabel(autoLabel)", "addLabel(filteredLabel)", "isInInbox">>
         \o (IF th.inInbox THEN <<"moveToArchive">> ELSE <<>>)

\* the Gmail calls of processThread up to the test of the content
readCalls(th) ==
  IF th.hasMsg
    THEN <<"getMessages", "getMessages", "getSubject", "getPlainBody", "getFrom">>
    ELSE <<"getMessages", "getMessages">>

\* every Gmail call processThread makes on a thread, in order; res is the value
\* classifyEmail(meta) returns
processThreadCalls(th, dry, res) ==
  IF ~th.hasMsg THEN readCalls(th)
  ELSE IF noContent(metaOf(th.mail)) THEN readCalls(th) \o inboxCalls(dry)
  ELSE readCalls(th) \o <<"getId">>
         \o (IF res.pertains THEN inboxCalls(dry) ELSE filteredCalls(th, dry))

\* a line of the log with the values its template interpolates; rules is what it
\* shows of result.matched_rules, which no template of the dispatcher mentions
Line(kind, pertains, confidence, reason) ==
  [kind |-> kind, pertains |-> pertains, confidence |-> confidence, reason |-> reason,
   rules |-> <<>>]

\* the catch block leaving the College/Auto label in place
failSafeKeepsAuto(th, dry) ==
  IF dry THEN th ELSE applyCalls(th, <<"removeLabel(filteredLabel)", "moveToInbox">>)

\* mutant of failSafe: the catch block leaves the College/Filtered label in place
failSafeKeepsFiltered(th, dry) ==
  IF dry THEN th ELSE applyCalls(th, <<"removeLabel(autoLabel)", "moveToInbox">>)

\* the catch block of runTriage on the thread
failSafe(th, dry) ==
  IF dry THEN th
  ELSE applyCalls(th, <<"removeLabel(autoLabel)", "removeLabel(filteredLabel)",
                        "moveToInbox">>)

\* the catch block counting the error only
failSafeStatsErrorOnly(st, dry) == [st EXCEPT !.errors = @ + 1]

\* the catch block of runTriage on the counters
failSafeStats(st, dry) ==
  IF dry THEN [st EXCEPT !.errors = @ + 1, !.wouldInbox = @ + 1]
  ELSE [st EXCEPT !.errors = @ + 1, !.didInbox = @ + 1]

\* processThread where the failAt-th Gmail call throws (0: none does) and res is
\* the value classifyEmail(meta) returns: the thread, the counters and the log
\* lines it leaves, and whether it threw
processThread(th, st, dry, failAt, res) ==
  LET cs == processThreadCalls(th, dry, res)
      reached == IF failAt = 0 THEN Len(cs) ELSE failAt - 1
      threw == failAt # 0 \/ ~th.hasMsg
      empty == noContent(metaOf(th.mail))
      read == th.hasMsg /\ reached >= Len(readCalls(th))
      lines ==
        IF ~read THEN <<>>
        ELSE IF empty THEN <<Line("WARNING: No content", TRUE, 0, "no content")>>
        ELSE IF reached > Len(readCalls(th))
          THEN <<Line("Relevant", res.pertains, res.confidence, res.reason)>>
        ELSE <<>>
      inbox == empty \/ res.pertains
      reason == IF empty THEN "no content" ELSE res.reason
      applied ==
        IF threw THEN <<>>
        ELSE IF inbox
          THEN <<Line(IF dry THEN "DRY_RUN: Would move to Inbox" ELSE "Applied: Moved to Inbox",
                      TRUE, 0, reason)>>
          ELSE <<Line(IF dry THEN "DRY_RUN: Would filter" ELSE "Applied: Filtered",
                      FALSE, 0, reason)>>
      counted ==
        IF threw THEN st
        ELSE IF inbox
          THEN IF dry THEN [st EXCEPT !.wouldInbox = @ + 1] ELSE [st EXCEPT !.didInbox = @ + 1]
          ELSE IF dry THEN [st EXCEPT !.wouldFiltered = @ + 1]
               ELSE [st EXCEPT !.didFiltered = @ + 1]
  IN [thread |-> applyCalls(th, SubSeq(cs, 1, reached)),
      stats |-> counted,
      lines |-> lines \o applied,
      threw |-> threw,
      error |-> IF failAt # 0 THEN "Exception: Gmail" ELSE "Error: No messages in thread"]

\* autoLabel.getThreads() without a page size: every thread under the label
RECURSIVE getThreadsNoMax(_, _, _)
getThreadsNoMax(box, from, max) ==
  IF from > Len(box) THEN <<>>
  ELSE IF AUTO_LABEL_NAME \in box[from].labels
    THEN <<from>> \o getThreadsNoMax(box, from + 1, max)
  ELSE getThreadsNoMax(box, from + 1, max)

\* autoLabel.getThreads(0, MAX_THREADS_PER_RUN): the first threads under the label
RECURSIVE getThreads(_, _, _)
getThreads(box, from, max) ==
  IF max = 0 \/ from > Len(box) THEN <<>>
  ELSE IF AUTO_LABEL_NAME \in box[from].labels
    THEN <<from>> \o getThreads(box, from + 1, max - 1)
  ELSE getThreads(box, from + 1, max)

InitTriage ==
  /\ verdicts = [m \in Mails \cup {LongMail, NoMail} |-> classifyEmail(metaOf(m))]
  /\ dryRun \in BOOLEAN
  /\ mailbox \in [1..NumThreads -> FreshThreads]
  /\ threads = <<>>
  /\ idx = 0
  /\ stats = zeroStats
  /\ running = FALSE
  /\ log = <<>>
  /\ input = [kind |-> "undefined", subject |-> Undefined, body |-> Undefined,
              from |-> Undefined]
  /\ pc = "off"
  /\ subject = <<>>
  /\ combined = <<>>
  /\ tried = <<>>
  /\ result = Null
  /\ NoScripts

\* runTriage up to the loop: fetch the threads, return if there are none
StartRun ==
  /\ ~running
  /\ LET fetched == getThreads(mailbox, 1, MAX_THREADS_PER_RUN) IN
     IF fetched = <<>>
       THEN /\ log' = <<Line("No threads under College/Auto.", FALSE, 0, "")>>
            /\ UNCHANGED <<threads, idx, stats, running>>
       ELSE /\ threads' = fetched
            /\ idx' = 0
            /\ stats' = zeroStats
            /\ running' = TRUE
            /\ log' = <<Line("Processing", FALSE, 0, "")>>
  /\ UNCHANGED <<dryRun, mailbox, verdicts>>
  /\ UNCHANGED <<cvars, svars>>

\* if (elapsed > MAX_EXECUTION_TIME_MS) { ...; stats.skipped = threads.length - i; break; }
\* followed by the summary
TimeLimit ==
  /\ running
  /\ idx < Len(threads)
  /\ stats' = [stats EXCEPT !.skipped = Len(threads) - idx]
  /\ log' = log \o <<Line("Time limit reached", FALSE, 0, ""), Line("Summary", FALSE, 0, "")>>
  /\ running' = FALSE
  /\ UNCHANGED <<dryRun, mailbox, threads, idx, verdicts>>
  /\ UNCHANGED <<cvars, svars>>

\* one iteration of the loop: try { processThread(...) } catch (e) { fail-safe },
\* for every Gmail call of processThread that may throw
ProcessNext ==
  /\ running
  /\ idx < Len(threads)
  /\ LET id == threads[idx + 1]
         th == mailbox[id]
         res == verdicts[th.mail]
     IN \E failAt \in 0..Len(processThreadCalls(th, dryRun, res)) :
          LET r == processThread(th, stats, dryRun, failAt, res) IN
          IF r.threw
            THEN /\ mailbox' = [mailbox EXCEPT ![id] = failSafe(r.thread, dryRun)]
                 /\ stats' = failSafeStats(r.stats, dryRun)
                 /\ log' = log \o r.lines \o <<Line("ERROR", TRUE, 0, r.error)>>
            ELSE /\ mailbox' = [mailbox EXCEPT ![id] = r.thread]
                 /\ stats' = r.stats
                 /\ log' = log \o r.lines
  /\ idx' = idx + 1
  /\ UNCHANGED <<dryRun, threads, running, verdicts>>
  /\ UNCHANGED <<cvars, svars>>

\* the loop ran through: Logger.log(`Summary: ...`)
Summary ==
  /\ running
  /\ idx = Len(threads)
  /\ log' = Append(log, Line("Summary", FALSE, 0, ""))
  /\ running' = FALSE
  /\ UNCHANGED <<dryRun, mailbox, threads, idx, stats, verdicts>>
  /\ UNCHANGED <<cvars, svars>>

NextTriage ==
  \/ StartRun
  \/ TimeLimit
  \/ ProcessNext
  \/ Summary

SpecTriage == InitTriage /\ [][NextTriage]_vars

(***************************************************************************)
(* Properties of the dispatcher                                            *)
(***************************************************************************)
\* the step is an iteration of the loop that ended in the catch block
Caught == running /\ idx' = idx + 1 /\ stats'.errors = stats.errors + 1

Blank(v) == v.tag = "null" \/ \A k \in 1..Len(v.val) : v.val[k] = NL

\* the step is an iteration of the loop that did not end in the catch block
Handled == running /\ idx' = idx + 1 /\ stats'.errors = stats.errors

\* C11: with DRY_RUN off and no error, a thread whose latest message has content
\* and classifies pertains=true loses College/Auto and College/Filtered, gains
\* College and is in the inbox; one that classifies pertains=false loses
\* College/Auto, gains College/Filtered and is archived; the counters follow.
C11_DispatchFollowsVerdict ==
  [][(Handled /\ ~dryRun /\ ~(Blank(mailbox[threads[idx + 1]].mail.subject)
                              /\ Blank(mailbox[threads[idx + 1]].mail.plainBody)))
      => LET id == threads[idx + 1]
             before == mailbox[id]
             after == mailbox'[id]
         IN IF verdicts[before.mail].pertains
              THEN /\ after.labels = (before.labels \ {AUTO_LABEL_NAME, FILTERED_LABEL_NAME})
                                       \cup {APPROVED_LABEL_NAME}
                   /\ after.inInbox
                   /\ stats'.didInbox = stats.didInbox + 1
                   /\ stats'.didFiltered = stats.didFiltered
              ELSE /\ after.labels = (before.labels \ {AUTO_LABEL_NAME})
                                       \cup {FILTERED_LABEL_NAME}
                   /\ ~after.inInbox
                   /\ stats'.didFiltered = stats.didFiltered + 1
                   /\ stats'.didInbox = stats.didInbox]_vars

\* DRY_RUN is off and the last iteration filtered a marketing mail that was in
\* the inbox, while an earlier one moved a security alert to the inbox
C11_Witness ==
  /\ ~dryRun
  /\ idx = 2
  /\ log[Len(log)].kind = "Applied: Filtered"
  /\ ~verdicts[mailbox[threads[2]].mail].pertains
  /\ mailbox[threads[2]].labels = {FILTERED_LABEL_NAME}
  /\ ~mailbox[threads[2]].inInbox
  /\ verdicts[mailbox[threads[1]].mail].pertains
  /\ mailbox[threads[1]].labels = {APPROVED_LABEL_NAME}
  /\ mailbox[threads[1]].inInbox
  /\ stats.didInbox = 1 /\ stats.didFiltered = 1 /\ stats.errors = 0

\* C12: for every email with string subject and body, classifyEmail of Code.ts and
\* EmailClassifier.classify return the same pertains verdict.
C12_SamePertains ==
  (pc = "doneDeployed" /\ input \in WellFormed)
    => result.pertains = classify(input).pertains

\* the log lines that report an action or a would-be action
ActionLines ==
  {"DRY_RUN: Would move to Inbox", "Applied: Moved to Inbox", "DRY_RUN: Would filter",
   "Applied: Filtered"}

\* C13: the log lines emitted for a thread that was classified and acted on (the
\* verdict line and the action line after it) show the reason and the matched
\* rule ids of the classification result.
C13_LogHasReasonAndRules ==
  (/\ running
   /\ idx >= 1
   /\ Len(log) >= 2
   /\ log[Len(log)].kind \in ActionLines
   /\ log[Len(log) - 1].kind = "Relevant")
    => LET v == verdicts[mailbox[threads[idx]].mail] IN
       /\ log[Len(log)].reason = v.reason
       /\ log[Len(log) - 1].reason = v.reason
       /\ \/ log[Len(log)].rules = v.matched_rules
          \/ log[Len(log) - 1].rules = v.matched_rules


(***************************************************************************)
(* The "How to Apply" email of the test suite                              *)
(***************************************************************************)
HowToApplyMail ==
  [kind |-> "object", subject |-> Str(<<"How", "to", "Apply">>),
   body |-> Str(<<"Learn", "how", "to", "apply", "to", "our", "university">>),
   from |-> From]

\* C14 as stated: the email is pertains=false because the "how to apply"
\* exclusion vetoes a Student-Action trigger that matched.
C14_Original ==
  (Returned /\ input = HowToApplyMail)
    => result.pertains = FALSE /\ Vetoed("action")

\* C14: for subject "How to Apply", body "Learn how to apply to our
\* university" classify returns pertains=false, and it is the Default verdict:
\* the "how to apply" exclusion matches the text but no Student-Action trigger
\* does, so there is nothing for the exclusion to veto.
C14_HowToApplyIsDefault ==
  (Returned /\ input = HowToApplyMail)
    => /\ result.pertains = FALSE
       /\ result = defaultVerdict
       /\ exclusionMatches("action", combined)
       /\ ~triggerMatches("action", combined)

C14_Witness ==
  /\ Returned /\ input = HowToApplyMail
  /\ result.matched_rules = <<"default_not_relevant">>
  /\ Test(actionExclusion, combined)


(***************************************************************************)
(* The Scholarship stage                                                   *)
(***************************************************************************)
\* no stage before Scholarship yields a verdict
ReachesScholarship ==
  \A n \in 1..(Position("scholarship") - 1) :
     stageVerdict(ClaimedOrder[n], subject, combined) = Null

\* C15: when no earlier stage yields a verdict, the subject matches "apply
\* for [the] ... scholarship" and the combined text names a specific program,
\* classify returns pertains=true, confidence 0.75, matched_rules =
\* ["scholarship_application_opportunity"], whatever the not-awarded and
\* awarded pattern sets would say; when the subject matches and no program is
\* named, the not-awarded test decides next, and the awarded test after it.
C15_ApplicationOpportunity ==
  (Returned /\ Test(applyForScholarship, subject) /\ ReachesScholarship)
    => IF Test(namedProgram, combined)
         THEN /\ result.pertains = TRUE
              /\ result.confidence = 75
              /\ result.matched_rules = <<"scholarship_application_opportunity">>
       ELSE IF AnyTest(notAwardedPatterns, combined)
         THEN result.matched_rules = <<"scholarship_not_awarded">>
       ELSE IF AnyTest(awardedPatterns, combined)
         THEN result.matched_rules = <<"scholarship_awarded">>
       ELSE result.matched_rules \notin
              {<<"scholarship_application_opportunity">>, <<"scholarship_not_awarded">>,
               <<"scholarship_awarded">>}

\* a named-program invitation whose text also matches a not-awarded pattern
C15_Witness ==
  /\ Returned /\ Test(applyForScholarship, subject) /\ Test(namedProgram, combined)
  /\ AnyTest(notAwardedPatterns, combined)
  /\ result = opportunityVerdict


\* C16: whenever classify returns matched_rules = ["scholarship_awarded"], no
\* not-awarded pattern matches the combined text (and the text contains the
\* word "scholarship", which is what enables the not-awarded test).
C16_AwardedOnlyAfterNotAwarded ==
  (Returned /\ result.matched_rules = <<"scholarship_awarded">>)
    => /\ ~AnyTest(notAwardedPatterns, combined)
       /\ \E i \in 1..Len(combined) : combined[i] = "scholarship"
       /\ result = awardedVerdict

C16_Witness ==
  /\ Returned /\ result.matched_rules = <<"scholarship_awarded">>
  /\ AnyTest(awardedPatterns, combined)


\* the combined text contains the word "scholarship"
SaysScholarship == \E i \in 1..Len(combined) : combined[i] = "scholarship"

\* C17: the not-awarded patterns are consulted only when the combined text
\* contains the word "scholarship": a text that matches a not-awarded pattern
\* ("held for you", "guaranteed admission", ...) without containing the word
\* never gets scholarship_not_awarded, and the Scholarship stage yields
\* nothing for it.
C17_NotAwardedNeedsMention ==
  (Returned /\ ~SaysScholarship /\ AnyTest(notAwardedPatterns, combined))
    => /\ result.matched_rules # <<"scholarship_not_awarded">>
       /\ checkScholarship(subject, combined) = Null

\* "guaranteed admission" without the word, in a mail that a later stage
\* finds relevant
C17_Witness ==
  /\ Returned /\ ~SaysScholarship /\ AnyTest(notAwardedPatterns, combined)
  /\ \E n \in 1..Len(tried) : tried[n] = "scholarship"
  /\ result.pertains = TRUE


(***************************************************************************)
(* The Student-Outreach Reply stage                                        *)
(***************************************************************************)
\* the trimmed, lower-cased subject begins with the reply marker
ReplySubject == \E n \in 1..Len(subject) :
                  /\ subject[n] = "re:"
                  /\ \A m \in 1..(n - 1) : subject[m] = NL

\* C18: the Student-Outreach Reply stage yields a verdict only when the
\* subject begins with "re:" and the combined text matches an acknowledgment
\* phrase; then, unless Security produced a verdict, classify returns
\* pertains=true, confidence 0.95, matched_rules = ["student_outreach_reply"],
\* ahead of Student-Action, Accepted-Student and all later stages.  For a
\* subject that does not begin with "re:" the rule is never returned.
C18_OutreachReply ==
  Returned =>
    /\ checkStudentOutreach(subject, combined) # Null
          => ReplySubject /\ AnyTest(responsePatterns, combined)
    /\ (ReplySubject /\ AnyTest(responsePatterns, combined)
           /\ checkSecurity(combined) = Null)
          => /\ result.pertains = TRUE
             /\ result.confidence = 95
             /\ result.matched_rules = <<"student_outreach_reply">>
    /\ ~ReplySubject => result.matched_rules # <<"student_outreach_reply">>

\* a reply with an acknowledgment phrase that a later stage would also claim
C18_Witness ==
  /\ Returned /\ ReplySubject
  /\ result = outreachVerdict
  /\ checkDualEnrollment(combined) # Null


(***************************************************************************)
(* The fail-safe against the inbox action                                  *)
(***************************************************************************)
\* C19: with DRY_RUN off, a thread that went through the catch block of
\* runTriage is in the state applyInboxAction leaves: College/Auto removed,
\* College/Filtered removed, the approved College label present, thread in
\* the inbox.
C19_FailSafeAsInboxAction ==
  (~dryRun /\ idx >= 1 /\ Len(log) >= 1 /\ log[Len(log)].kind = "ERROR")
    => LET th == mailbox[threads[idx]] IN
       /\ AUTO_LABEL_NAME \notin th.labels
       /\ FILTERED_LABEL_NAME \notin th.labels
       /\ APPROVED_LABEL_NAME \in th.labels
       /\ th.inInbox


(***************************************************************************)
(* Threads without content                                                 *)
(***************************************************************************)
\* the thread has a latest message and both its subject and its body are empty
\* once trimmed
EmptyThread(th) == th.hasMsg /\ Blank(th.mail.subject) /\ Blank(th.mail.plainBody)

\* C20: a thread whose latest message has an empty subject and an empty body
\* (after trimming) gets the inbox action and no verdict line is logged for
\* it, although classify on the same content returns the Default
\* pertains=false verdict; whether or not a Gmail call fails on it, such a
\* thread is never filtered.
C20_NoContentToInbox ==
  [][(running /\ idx' = idx + 1 /\ EmptyThread(mailbox[threads[idx + 1]]))
      => LET id == threads[idx + 1]
             before == mailbox[id]
             after == mailbox'[id]
             lines == SubSeq(log', Len(log) + 1, Len(log'))
         IN /\ verdicts[before.mail].pertains = FALSE
            /\ verdicts[before.mail].matched_rules = <<"default_not_relevant">>
            /\ \A k \in 1..Len(lines) :
                  lines[k].kind \notin {"Relevant", "DRY_RUN: Would filter", "Applied: Filtered"}
            /\ FILTERED_LABEL_NAME \notin after.labels
            /\ before.inInbox => after.inInbox
            /\ stats'.didFiltered = stats.didFiltered
            /\ stats'.wouldFiltered = stats.wouldFiltered
            /\ Handled =>
                 /\ lines[1].kind = "WARNING: No content"
                 /\ lines[Len(lines)].reason = "no content"
                 /\ IF dryRun
                      THEN /\ after = before
                           /\ stats'.wouldInbox = stats.wouldInbox + 1
                      ELSE /\ after.labels = (before.labels \ {AUTO_LABEL_NAME})
                                               \cup {APPROVED_LABEL_NAME}
                           /\ after.inInbox
                           /\ stats'.didInbox = stats.didInbox + 1]_vars

\* DRY_RUN is off and the last iteration moved an archived thread without
\* content to the inbox
C20_Witness ==
  /\ ~dryRun
  /\ idx >= 1
  /\ EmptyThread(mailbox[threads[idx]])
  /\ Len(log) >= 2
  /\ log[Len(log) - 1].kind = "WARNING: No content"
  /\ log[Len(log)].kind = "Applied: Moved to Inbox"
  /\ log[Len(log)].reason = "no content"
  /\ mailbox[threads[idx]].labels = {APPROVED_LABEL_NAME}
  /\ mailbox[threads[idx]].inInbox
  /\ ~verdicts[mailbox[threads[idx]].mail].pertains


(***************************************************************************)
(* DRY_RUN                                                                 *)
(***************************************************************************)
\* C21: with DRY_RUN on, no step of runTriage changes a thread: no label is
\* added or removed and no thread is moved, whether the thread gets the inbox
\* verdict, the filtered verdict, has no content or ends in the catch block;
\* didInbox and didFiltered stay 0, and a handled thread is counted in
\* wouldInbox or wouldFiltered.
C21_DryRunFrame ==
  [][dryRun =>
      /\ mailbox' = mailbox
      /\ dryRun'
      /\ stats'.didInbox = 0 /\ stats'.didFiltered = 0
      /\ (running /\ idx' = idx + 1) =>
           /\ stats'.wouldInbox + stats'.wouldFiltered
                = stats.wouldInbox + stats.wouldFiltered + 1
           /\ stats'.errors \in {stats.errors, stats.errors + 1}
           /\ stats'.skipped = stats.skipped]_vars

\* a dry run that ended after one thread was counted as would-filter and
\* another went through the catch block, every thread still as it was
C21_Witness ==
  /\ dryRun /\ ~running
  /\ log # <<>> /\ log[Len(log)].kind = "Summary"
  /\ stats.wouldFiltered = 1 /\ stats.wouldInbox = 1 /\ stats.errors = 1
  /\ \A id \in 1..NumThreads : mailbox[id].labels = {AUTO_LABEL_NAME}


(***************************************************************************)
(* The time budget                                                         *)
(***************************************************************************)
\* the step is the break out of the loop on the time limit
TimedOut == running /\ ~running' /\ idx < Len(threads)

\* C22: runTriage fetches at most MAX_THREADS_PER_RUN threads; when the time
\* limit is found exceeded before thread i is handled, the run stops, no
\* thread changes (threads i..n-1 still carry College/Auto, threads 0..i-1
\* keep what was applied to them), stats.skipped = n - i and the other
\* counters keep their values.
C22_TimeBudget ==
  [][/\ Len(threads') <= MAX_THREADS_PER_RUN
     /\ TimedOut =>
          /\ mailbox' = mailbox
          /\ idx' = idx
          /\ stats' = [stats EXCEPT !.skipped = Len(threads) - idx]
          /\ \A k \in (idx + 1)..Len(threads) :
                AUTO_LABEL_NAME \in mailbox'[threads[k]].labels
          /\ \A k \in 1..idx :
                AUTO_LABEL_NAME \in mailbox'[threads[k]].labels => dryRun]_vars

\* more threads are labelled than one run fetches; the run was cut short after
\* its first thread, which had been filtered, and the second is untouched
C22_Witness ==
  /\ ~dryRun /\ ~running
  /\ Len(threads) = MAX_THREADS_PER_RUN /\ idx = 1
  /\ Len(log) >= 2 /\ log[Len(log) - 1].kind = "Time limit reached"
  /\ stats.skipped = Len(threads) - 1
  /\ stats.didFiltered = 1
  /\ FILTERED_LABEL_NAME \in mailbox[threads[1]].labels
  /\ \A id \in 2..NumThreads : mailbox[id].labels = {AUTO_LABEL_NAME}


(***************************************************************************)
(* The counters                                                            *)
(***************************************************************************)
\* runTriage has logged its summary and returned
Finished == ~running /\ log # <<>> /\ log[Len(log)].kind = "Summary"

\* C23: when a run over n fetched threads finishes, every thread has been
\* counted exactly once: wouldInbox + wouldFiltered + didInbox + didFiltered
\* + skipped = n; errors is at most the number of inbox-counted threads; with
\* DRY_RUN off wouldInbox = wouldFiltered = 0 (and with DRY_RUN on didInbox =
\* didFiltered = 0).
C23_Accounting ==
  Finished =>
    /\ stats.wouldInbox + stats.wouldFiltered + stats.didInbox + stats.didFiltered
         + stats.skipped = Len(threads)
    /\ stats.errors <= stats.wouldInbox + stats.didInbox
    /\ ~dryRun => stats.wouldInbox = 0 /\ stats.wouldFiltered = 0
    /\ dryRun => stats.didInbox = 0 /\ stats.didFiltered = 0

\* a finished run with DRY_RUN off: one thread filtered, one through the catch
\* block
C23_Witness ==
  /\ Finished /\ ~dryRun
  /\ Len(threads) = 2
  /\ stats.didFiltered = 1 /\ stats.didInbox = 1 /\ stats.errors = 1
  /\ stats.skipped = 0


(***************************************************************************)
(* Progress over repeated runs                                             *)
(***************************************************************************)
\* DRY_RUN off and a mailbox with one thread for each way processThread can
\* go: inbox action (here for lack of content), filtered action, no message
ProgressThreads ==
  {th \in FreshThreads :
     \/ ~th.hasMsg
     \/ th.hasMsg /\ th.mail \in Mails /\ ~th.inInbox /\ ~verdicts[th.mail].pertains}

InitProgress ==
  /\ verdicts = [m \in Mails \cup {LongMail, NoMail} |-> classifyEmail(metaOf(m))]
  /\ dryRun = FALSE
  /\ mailbox \in [1..NumThreads -> ProgressThreads]
  /\ threads = <<>>
  /\ idx = 0
  /\ stats = zeroStats
  /\ running = FALSE
  /\ log = <<>>
  /\ input = [kind |-> "undefined", subject |-> Undefined, body |-> Undefined,
              from |-> Undefined]
  /\ pc = "off"
  /\ subject = <<>>
  /\ combined = <<>>
  /\ tried = <<>>
  /\ result = Null
  /\ NoScripts

\* the break on the time limit in a run that has handled at least one thread
TimeLimitLater == idx >= 1 /\ TimeLimit

NextProgress ==
  \/ StartRun
  \/ TimeLimitLater
  \/ ProcessNext
  \/ Summary

\* runTriage under its time-based trigger (setupTriggers: everyMinutes(10)): the
\* trigger keeps firing, a run that has started runs on to its summary, and no
\* run is cut short by the time limit before its first thread
SpecProgress == InitProgress /\ [][NextProgress]_vars /\ WF_vars(NextProgress)

\* C24: with DRY_RUN off and runTriage fired again and again, every thread
\* labelled College/Auto eventually has the label removed.
C24_Progress ==
  <>(~dryRun /\ \A id \in 1..NumThreads : AUTO_LABEL_NAME \notin mailbox[id].labels)

\* more threads than one run fetches, and none is left under College/Auto
C24_Witness ==
  /\ ~dryRun
  /\ NumThreads > MAX_THREADS_PER_RUN
  /\ \A id \in 1..NumThreads : AUTO_LABEL_NAME \notin mailbox[id].labels
  /\ Finished


(***************************************************************************)
(* Rule identifiers and confidence                                         *)
(***************************************************************************)
PertainingRules ==
  {"security_alert", "student_outreach_reply", "student_action_confirmation",
   "accepted_student", "dual_enrollment", "scholarship_application_opportunity",
   "scholarship_awarded", "financial_aid_ready"}

NotPertainingRules ==
  {"scholarship_not_awarded", "irrelevant_marketing", "not_applied", "default_not_relevant",
   "invalid_input"}

\* classify has returned a value (it has not thrown)
ReturnedValue == pc = "done" /\ result # Threw

\* C25: every result classify returns carries exactly one rule identifier, one
\* of the thirteen, and pertains is true exactly for the eight pertaining
\* identifiers and false exactly for the five others.
C25_OneRuleDecidesPertains ==
  ReturnedValue =>
    /\ Len(result.matched_rules) = 1
    /\ result.matched_rules[1] \in PertainingRules \cup NotPertainingRules
    /\ result.pertains <=> result.matched_rules[1] \in PertainingRules
    /\ ~result.pertains <=> result.matched_rules[1] \in NotPertainingRules

\* the rule that only the end of checkIrrelevant returns
C25_Witness ==
  /\ ReturnedValue
  /\ result.matched_rules = <<"not_applied">>
  /\ ~result.pertains
  /\ tried = ClaimedOrder


\* the confidence each rule identifier comes with, in percent
ConfidenceOf(rule) ==
  CASE rule = "security_alert" -> 100
    [] rule \in {"student_outreach_reply", "student_action_confirmation", "accepted_student",
                 "scholarship_awarded", "financial_aid_ready", "irrelevant_marketing",
                 "not_applied"} -> 95
    [] rule \in {"dual_enrollment", "scholarship_not_awarded"} -> 90
    [] rule = "scholarship_application_opportunity" -> 75
    [] rule = "default_not_relevant" -> 30
    [] rule = "invalid_input" -> 0

\* C26: confidence is a constant of the rule returned and one of 0.0, 0.3,
\* 0.75, 0.9, 0.95, 1.0; a pertains=true result has confidence >= 0.75; a
\* confidence under the 0.5 threshold comes only with the Default and the
\* invalid-input verdicts, which are pertains=false.
C26_ConfidencePerRule ==
  ReturnedValue =>
    /\ result.confidence \in {0, 30, 75, 90, 95, 100}
    /\ result.confidence = ConfidenceOf(result.matched_rules[1])
    /\ result.pertains => result.confidence >= 75
    /\ result.confidence < 50
         => /\ result.matched_rules[1] \in {"default_not_relevant", "invalid_input"}
            /\ ~result.pertains

\* the pertaining verdict with the lowest confidence
C26_Witness ==
  /\ ReturnedValue
  /\ result.pertains
  /\ result.confidence = 75


(***************************************************************************)
(* `continue` against `return null`                                        *)
(***************************************************************************)
\* C27: in checkSecurity and checkStudentAction the outcome is a verdict
\* exactly when some trigger matches and the exclusion does not, whichever
\* trigger matched; the deployed loops, which `continue` on an exclusion
\* match, and the class's loops, which `return null`, therefore yield a
\* verdict for the same combined texts, and the same pertains.
C27_ContinueAsReturnNull ==
  Returned =>
    /\ (checkSecurity(combined) # Null)
         <=> (AnyTest(securityPatterns, combined) /\ ~Test(securityExclusion, combined))
    /\ (checkSecurityDeployed(combined) # Null) <=> (checkSecurity(combined) # Null)
    /\ checkSecurity(combined) # Null
         => checkSecurityDeployed(combined).pertains = checkSecurity(combined).pertains
    /\ (checkStudentAction(combined) # Null)
         <=> (AnyTest(actionPatterns, combined) /\ ~Test(actionExclusion, combined))
    /\ (checkStudentActionDeployed(combined) # Null)
         <=> (checkStudentAction(combined) # Null)
    /\ checkStudentAction(combined) # Null
         => checkStudentActionDeployed(combined).pertains
              = checkStudentAction(combined).pertains

\* two security triggers match (the first and the fourth) and so does the
\* tuition-savings exclusion
C27_Witness ==
  /\ Returned
  /\ Test(securityPatterns[1], combined) /\ Test(securityPatterns[4], combined)
  /\ Test(securityExclusion, combined)
  /\ checkSecurityDeployed(combined) = Null
  /\ result.matched_rules # <<"security_alert">>


(***************************************************************************)
(* setupTriggers (wrapper.ts, Code.ts)                                     *)
(***************************************************************************)
MaxTriggers == 4
MaxSetups == 2

\* classify and runTriage are not exercised
NoClassify ==
  /\ input = [kind |-> "undefined", subject |-> Undefined, body |-> Undefined,
              from |-> Undefined]
  /\ pc = "off"
  /\ subject = <<>>
  /\ combined = <<>>
  /\ tried = <<>>
  /\ result = Null

\* handler functions a project trigger may name
Handlers == {"runTriage", "ensureLabels", "setupTriggers"}

\* the loop that stops deleting after the first runTriage trigger
RECURSIVE deleteFirstTrigger(_, _)
deleteFirstTrigger(ts, i) ==
  IF i > Len(ts) THEN <<>>
  ELSE IF ts[i] = "runTriage" THEN SubSeq(ts, i + 1, Len(ts))
  ELSE <<ts[i]>> \o deleteFirstTrigger(ts, i + 1)

\* for (i ...) if (triggers[i].getHandlerFunction() === "runTriage")
\*   ScriptApp.deleteTrigger(triggers[i]): the triggers left, from index i on
RECURSIVE deleteTriggers(_, _)
deleteTriggers(ts, i) ==
  IF i > Len(ts) THEN <<>>
  ELSE (IF ts[i] = "runTriage" THEN <<>> ELSE <<ts[i]>>) \o deleteTriggers(ts, i + 1)

InitTriggers ==
  /\ triggers \in UNION {[1..n -> Handlers] : n \in 0..MaxTriggers}
  /\ setups = 0
  /\ NoClassify /\ NoTriage /\ NoImport /\ NoLabel

\* one call of setupTriggers: delete, then ScriptApp.newTrigger("runTriage")...create()
SetupTriggers ==
  /\ setups < MaxSetups
  /\ triggers' = Append(deleteTriggers(triggers, 1), "runTriage")
  /\ setups' = setups + 1
  /\ UNCHANGED <<cvars, tvars, ivars, lvars>>

SpecTriggers == InitTriggers /\ [][SetupTriggers]_vars

IsRunTriage(h) == h = "runTriage"

IsOther(h) == h # "runTriage"

\* C28: after a call of setupTriggers there is exactly one trigger whose
\* handler is runTriage, whether there were none, one or several before; the
\* triggers of other handlers are the same, in the same order; a further call
\* leaves the triggers as they are.
C28_SetupIdempotent ==
  [][setups' = setups + 1 =>
      /\ Len(SelectSeq(triggers', IsRunTriage)) = 1
      /\ SelectSeq(triggers', IsOther) = SelectSeq(triggers, IsOther)
      /\ setups >= 1 => triggers' = triggers]_vars

\* setupTriggers was called twice on a project that had runTriage triggers and
\* others
C28_Witness ==
  /\ setups = 2
  /\ Len(triggers) >= 3
  /\ Len(SelectSeq(triggers, IsRunTriage)) = 1
  /\ triggers[Len(triggers)] = "runTriage"


(***************************************************************************)
(* import-labeled.ts                                                       *)
(***************************************************************************)
MaxEmails == 2

ThreadIds == {"t1", "t2", "t3"}

\* the emails of a dataset file: thread ids all different
Datasets ==
  {d \in UNION {[1..n -> [thread_id : ThreadIds, reason : {"old"}, confidence : {"high"}]] :
                  n \in 0..MaxEmails} :
     \A j, k \in 1..Len(d) : d[j].thread_id = d[k].thread_id => j = k}

\* the emails of a labeled file, as label.ts or an editor left them
LabeledFiles ==
  UNION {[1..n -> [thread_id : ThreadIds, reason : {"new"}]] : n \in 0..MaxEmails}

\* newData.emails.filter(e => !existingThreadIds.has(e.thread_id)), from index k on
RECURSIVE newEmails(_, _, _)
newEmails(emails, existingThreadIds, k) ==
  IF k > Len(emails) THEN <<>>
  ELSE (IF emails[k].thread_id \in existingThreadIds THEN <<>> ELSE <<emails[k]>>)
         \o newEmails(emails, existingThreadIds, k + 1)

\* newEmails.map(e => ({ ...e, confidence: "high" }))
emailsWithConfidence(emails) ==
  [k \in 1..Len(emails) |->
     [thread_id |-> emails[k].thread_id, reason |-> emails[k].reason, confidence |-> "high"]]

InitImport ==
  /\ dataset \in Datasets
  /\ newData \in LabeledFiles
  /\ writes = 0
  /\ imported = FALSE
  /\ NoClassify /\ NoTriage /\ NoTriggers /\ NoLabel

\* main of import-labeled.ts up to the evaluation, which changes no file
Import ==
  /\ ~imported
  /\ imported' = TRUE
  /\ LET existingThreadIds == {dataset[k].thread_id : k \in 1..Len(dataset)}
         new == newEmails(newData, existingThreadIds, 1)
     IN IF new = <<>>
          THEN UNCHANGED <<dataset, writes>>
          ELSE /\ dataset' = dataset \o emailsWithConfidence(new)
               /\ writes' = writes + 1
  /\ UNCHANGED newData
  /\ UNCHANGED <<cvars, tvars, gvars, lvars>>

SpecImport == InitImport /\ [][Import]_vars

\* C29: after an import into a dataset that had no two emails with the same
\* thread_id, the dataset has none, whatever the labeled file holds; and when
\* every email of the file is already in the dataset, the dataset file is not
\* written.
C29_NoDuplicateThreadIds ==
  imported =>
    /\ \A j, k \in 1..Len(dataset) : dataset[j].thread_id = dataset[k].thread_id => j = k
    /\ (\A k \in 1..Len(newData) :
          \E j \in 1..Len(dataset) :
            dataset[j].thread_id = newData[k].thread_id /\ dataset[j].reason = "old")
         => writes = 0


(***************************************************************************)
(* label.ts                                                                *)
(***************************************************************************)
\* data.emails.length; the emails are numbered 1..NumExported
NumExported == 3

\* what the user types at a prompt, trimmed ("" also stands for end of input)
Answers == {"y", "n", "s", "q", "Q", ""}

\* answer.toLowerCase()
lowerAnswer(a) == IF a = "Q" THEN "q" ELSE a

\* main after its loop: nothing is written when labeled is empty, else the
\* output file gets the labeled emails
written(file, emails) == IF emails = <<>> THEN file ELSE emails

InitLabel ==
  /\ prompting = "relevance"
  /\ emailIdx = 1
  /\ pertainsInput = ""
  /\ labeled = <<>>
  /\ outputFile = <<>>
  /\ quitAt = 0
  /\ NoClassify /\ NoTriage /\ NoTriggers /\ NoImport

\* labelEmail: the answer to "Is this relevant? (y/n/s=skip/q=quit)"; on q and on
\* s it returns null to main, which asks whether to continue unless the email
\* was the last
AnswerRelevance(a) ==
  /\ prompting = "relevance"
  /\ IF lowerAnswer(a) \in {"q", "s"}
       THEN /\ quitAt' = IF lowerAnswer(a) = "q" /\ quitAt = 0 THEN emailIdx ELSE quitAt
            /\ IF emailIdx < NumExported
                 THEN prompting' = "continue" /\ outputFile' = outputFile
                 ELSE prompting' = "exit" /\ outputFile' = written(outputFile, labeled)
            /\ UNCHANGED <<emailIdx, pertainsInput, labeled>>
       ELSE /\ prompting' = "reason"
            /\ pertainsInput' = a
            /\ UNCHANGED <<emailIdx, labeled, outputFile, quitAt>>
  /\ UNCHANGED <<cvars, tvars, gvars, ivars>>

\* labelEmail: the answer to "Why is it relevant? " / "Why not relevant? "; main
\* pushes the labeled email and goes on to the next one
AnswerReason(r) ==
  /\ prompting = "reason"
  /\ LET pertains == lowerAnswer(pertainsInput) = "y"
         email == [email |-> emailIdx, pertains |-> pertains,
                   reason |-> IF r # "" THEN r
                              ELSE IF pertains THEN "relevant" ELSE "not relevant"]
     IN /\ labeled' = Append(labeled, email)
        /\ IF emailIdx < NumExported
             THEN /\ emailIdx' = emailIdx + 1
                  /\ prompting' = "relevance"
                  /\ outputFile' = outputFile
             ELSE /\ emailIdx' = emailIdx
                  /\ prompting' = "exit"
                  /\ outputFile' = written(outputFile, labeled')
  /\ pertainsInput' = ""
  /\ UNCHANGED quitAt
  /\ UNCHANGED <<cvars, tvars, gvars, ivars>>

\* main: the answer to "Continue labeling? (y/n)"
AnswerContinue(c) ==
  /\ prompting = "continue"
  /\ IF lowerAnswer(c) # "y"
       THEN /\ prompting' = "exit"
            /\ outputFile' = written(outputFile, labeled)
            /\ UNCHANGED emailIdx
       ELSE /\ prompting' = "relevance"
            /\ emailIdx' = emailIdx + 1
            /\ UNCHANGED outputFile
  /\ UNCHANGED <<pertainsInput, labeled, quitAt>>
  /\ UNCHANGED <<cvars, tvars, gvars, ivars>>

NextLabel ==
  \/ \E a \in Answers : AnswerRelevance(a)
  \/ \E r \in {"", "marketing spam"} : AnswerReason(r)
  \/ \E c \in Answers : AnswerContinue(c)

SpecLabel == InitLabel /\ [][NextLabel]_vars

\* C30: once q has been answered at the relevance prompt no further email is
\* presented for labeling, and when the program has ended the emails labelled
\* so far are in the output file.
C30_QuitStopsLabeling ==
  quitAt # 0 =>
    /\ ~(prompting \in {"relevance", "reason"} /\ emailIdx > quitAt)
    /\ (prompting = "exit" /\ labeled # <<>>) => outputFile = labeled

====
